---- MODULE Spec2Model ----
(***************************************************************************)
(* A model of the text field editing engine (Field) of the unison toolkit. *)
(*                                                                         *)
(* A Field is modelled as a record holding the fields of the Go struct,    *)
(* together with the two pieces of the world its handlers touch: the       *)
(* global clipboard and the log of ModifiedCallback invocations.  Every Go *)
(* method is an operator from a field record (and the method's arguments)  *)
(* to the field record after the call.  Methods that also return a value   *)
(* yield a record [f |-> field after the call, v |-> value].               *)
(*                                                                         *)
(* Runes are integers (Go's rune is int32).  A Go string is modelled as    *)
(* the sequence of code points it decodes to, with BadByte standing for a  *)
(* byte that is no valid UTF-8.  Converting a rune slice to a string       *)
(* replaces every rune that is not a valid code point by U+FFFD, and       *)
(* converting a string to runes replaces every bad byte by U+FFFD, as Go   *)
(* does.                                                                   *)
(***************************************************************************)
EXTENDS Integers, Sequences, FiniteSets, TLC

\* ------------------------------------------------------------------------
\* Bounds of the model
\* ------------------------------------------------------------------------

\* The longest rune buffer explored: an insertion that would grow the buffer
\* past it is not explored.
MaxLen == 2

\* ------------------------------------------------------------------------
\* Runes, strings and the unicode predicates
\* ------------------------------------------------------------------------

Tab == 9
LineFeed == 10
CarriageReturn == 13
LetterA == 97
Surrogate == 55296
RuneError == 65533

Min(a, b) == IF a < b THEN a ELSE b
Max(a, b) == IF a > b THEN a ELSE b

\* A local variable: Op applied to the value v, which is computed once.
With(v, Op(_)) == Op(v)

\* unicode.IsControl, unicode.IsLetter, unicode.IsDigit on the runes of the model.
IsControl(r) == (r >= 0 /\ r <= 31) \/ (r >= 127 /\ r <= 159)
IsLetter(r) == (r >= 65 /\ r <= 90) \/ (r >= 97 /\ r <= 122)
IsDigit(r) == r >= 48 /\ r <= 57

\* A rune that string(rune) encodes as itself: a code point that is no surrogate.
ValidRune(r) == r >= 0 /\ r <= 1114111 /\ ~(r >= 55296 /\ r <= 57343)

\* string(runes): every invalid rune becomes U+FFFD.
StringOf(rs) == [i \in 1..Len(rs) |-> IF ValidRune(rs[i]) THEN rs[i] ELSE RuneError]

\* A byte of a string that is not part of a valid UTF-8 sequence.
BadByte == -1

\* []rune(text): the code points of the string, U+FFFD for every bad byte.
RunesOf(text) == [i \in 1..Len(text) |-> IF text[i] = BadByte THEN RuneError ELSE text[i]]

\* txt.RunesEqual
RunesEqual(a, b) == a = b

\* runes[from:to] of a Go slice (0-based, to exclusive).
Slice(rs, from, to) == SubSeq(rs, from + 1, to)

\* ------------------------------------------------------------------------
\* Geometry supplied by the panel and the text-measurement collaborator
\* ------------------------------------------------------------------------

\* Advance of every glyph and the height of every line (one font).
CharW == 2
LineH == 2

\* ContentRect(false): the rectangle inside the border.  RectW is the width of
\* a field as constructed; the width a field has is its component `width`.
RectX == 0
RectY == 0
RectW == 4
RectH == 4
RectRight(f) == RectX + f.width
RectBottom == RectY + RectH

\* Text.RuneIndexForPosition: the rune boundary nearest to x.
RuneIndexForPosition(t, x) == Max(0, Min(Len(t), (x + (CharW \div 2)) \div CharW))

\* Text.PositionForRuneIndex
PositionForRuneIndex(t, i) == CharW * Max(0, Min(Len(t), i))

\* Text.BreakToWidth: pieces of as many runes as fit the width, at least one rune
\* each; a text that fits (the empty text included) is a single piece.
RECURSIVE BreakToWidth(_, _)
BreakToWidth(t, width) ==
    LET n == Max(1, width \div CharW)
    IN  IF Len(t) <= n THEN <<t>>
        ELSE <<SubSeq(t, 1, n)>> \o BreakToWidth(SubSeq(t, n + 1, Len(t)), width)

\* strings.Split(s, "\n")
RECURSIVE SplitLines(_)
SplitLines(s) ==
    IF \A i \in 1..Len(s) : s[i] # LineFeed THEN <<s>>
    ELSE LET k == CHOOSE i \in 1..Len(s) :
                      s[i] = LineFeed /\ \A j \in 1..(i - 1) : s[j] # LineFeed
         IN  <<SubSeq(s, 1, k - 1)>> \o SplitLines(SubSeq(s, k + 1, Len(s)))

\* ------------------------------------------------------------------------
\* The layout cache
\* ------------------------------------------------------------------------

\* obscureIfNeeded / obscureStringIfNeeded: every rune replaced by the mask rune.
obscureIfNeeded(f, in) ==
    IF f.ObscurementRune = 0 THEN in ELSE [i \in 1..Len(in) |-> f.ObscurementRune]

\* The display lines of one "\n"-separated segment of a multi-line field.
SegmentLines(f, seg, wrapWidth) ==
    LET one == obscureIfNeeded(f, RunesOf(seg))
    IN  IF f.wrap /\ wrapWidth > 0 THEN BreakToWidth(one, wrapWidth) ELSE <<one>>

RECURSIVE Flatten(_)
Flatten(ss) == IF ss = <<>> THEN <<>> ELSE Head(ss) \o Flatten(Tail(ss))

\* buildLines: the cached lines when the cache was built for this width, and
\* otherwise the layout of the rune buffer.
buildLines(f, wrapWidth) ==
    IF wrapWidth = f.linesBuiltFor /\ f.linesBuiltFor >= 0
    THEN [lines |-> f.lines, endsWithLineFeed |-> f.endsWithLineFeed]
    ELSE IF Len(f.runes) = 0
    THEN [lines |-> <<>>, endsWithLineFeed |-> <<>>]
    ELSE IF f.multiLine
    THEN With(SplitLines(StringOf(f.runes)), LAMBDA segs :
         With([k \in 1..Len(segs) |-> SegmentLines(f, segs[k], wrapWidth)], LAMBDA parts :
             [lines |-> Flatten(parts),
              endsWithLineFeed |->
                  Flatten([k \in 1..Len(parts) |->
                              [i \in 1..Len(parts[k]) |-> i = Len(parts[k])]])]))
    ELSE With(IF f.wrap /\ wrapWidth > 0
              THEN BreakToWidth(obscureIfNeeded(f, f.runes), wrapWidth)
              ELSE <<obscureIfNeeded(f, f.runes)>>, LAMBDA ls :
             [lines |-> ls, endsWithLineFeed |-> [i \in 1..Len(ls) |-> FALSE]])

prepareLines(f, width) ==
    With(buildLines(f, width), LAMBDA b :
        [f EXCEPT !.lines = b.lines, !.endsWithLineFeed = b.endsWithLineFeed,
                  !.linesBuiltFor = Max(width, 0)])

prepareLinesForCurrentWidth(f) == prepareLines(f, f.width - 2)

\* The number of buffer positions line i (1-based) of the cache covers: its runes
\* and the line feed it consumed.
LineLength(f, i) == Len(f.lines[i]) + (IF f.endsWithLineFeed[i] THEN 1 ELSE 0)

\* The buffer position at which line i (1-based) of the cache starts.
RECURSIVE LineStart(_, _)
LineStart(f, i) == IF i <= 1 THEN 0 ELSE LineStart(f, i - 1) + LineLength(f, i - 1)

\* textLeft / textLeftForWidth with the default start alignment.
textLeft == RectX + 1

\* lineIndexForPos: the 0-based index and the start position of the line that
\* holds pos.
lineIndexForPos(f, pos) ==
    IF pos < 0 THEN [f |-> f, index |-> 0, start |-> 0]
    ELSE With(prepareLinesForCurrentWidth(f), LAMBDA g :
         LET n == Len(g.lines)
             hit == {i \in 1..n : pos < LineStart(g, i) + LineLength(g, i)}
         IN  IF hit # {}
             THEN LET i == CHOOSE j \in hit : \A k \in hit : j <= k
                  IN  [f |-> g, index |-> i - 1, start |-> LineStart(g, i)]
             ELSE [f |-> g, index |-> Max(n - 1, 0),
                   start |-> IF n = 0 THEN 0 ELSE LineStart(g, n)])

\* lineIndexForY: the 0-based index and the start position of the line under y.
lineIndexForY(f, y0) ==
    IF y0 - RectY < 0 THEN [f |-> f, index |-> 0, start |-> 0]
    ELSE With(prepareLinesForCurrentWidth(f), LAMBDA g :
         LET y == y0 - RectY
             n == Len(g.lines)
             top(i) == g.scrollOffset.Y + (i - 1) * LineH
             hit == {i \in 1..n : y >= top(i) /\ y <= top(i) + LineH}
         IN  IF hit # {}
             THEN LET i == CHOOSE j \in hit : \A k \in hit : j <= k
                  IN  [f |-> g, index |-> i - 1, start |-> LineStart(g, i)]
             ELSE [f |-> g, index |-> Max(n - 1, 0),
                   start |-> IF n = 0 THEN 0 ELSE LineStart(g, n)])

\* lineHeightAt: v is the height of the line under y, or -1 when f.lines[index]
\* is an index out of range.
lineHeightAt(f, y) ==
    IF Len(f.lines) = 0 THEN [f |-> f, v |-> LineH]
    ELSE With(lineIndexForY(f, y), LAMBDA r :
             IF r.index + 1 \in DOMAIN r.f.lines THEN [f |-> r.f, v |-> LineH]
             ELSE [f |-> r.f, v |-> -1])

\* FromSelectionIndex: the local coordinates of a rune index.
FromSelectionIndex(f, index0) ==
    With(prepareLinesForCurrentWidth(f), LAMBDA g :
    LET index == Max(Min(index0, Len(g.runes)), 0)
        n == Len(g.lines)
        hit == {i \in 1..n : LineLength(g, i) >= index - LineStart(g, i)}
    IN  IF hit # {}
        THEN LET i == CHOOSE j \in hit : \A k \in hit : j <= k
             IN  [f |-> g,
                  v |-> [X |-> textLeft
                                 + PositionForRuneIndex(g.lines[i], index - LineStart(g, i))
                                 + g.scrollOffset.X,
                         Y |-> RectY + g.scrollOffset.Y + (i - 1) * LineH]]
        ELSE [f |-> g,
              v |-> [X |-> textLeft + g.scrollOffset.X,
                     Y |-> RectY + g.scrollOffset.Y + n * LineH
                             - (IF n = 0 THEN 0 ELSE LineH)]])

\* ToSelectionIndex: the rune index for local coordinates.
ToSelectionIndex(f, where) ==
    IF Len(f.runes) = 0 THEN [f |-> f, v |-> 0]
    ELSE With(lineIndexForY(prepareLinesForCurrentWidth(f), where.Y), LAMBDA r :
         LET t == r.f.lines[r.index + 1]
             offset == RuneIndexForPosition(t, where.X - (textLeft + r.f.scrollOffset.X))
         IN  [f |-> r.f,
              v |-> IF r.f.multiLine /\ ~r.f.endsWithLineFeed[r.index + 1]
                       /\ Len(t) = offset
                    THEN r.start + offset - 1 ELSE r.start + offset])

\* ------------------------------------------------------------------------
\* Scrolling and the selection
\* ------------------------------------------------------------------------

\* A runtime panic inside a handler: the handler stops where it is.
Panic(f) == [f EXCEPT !.panicked = TRUE]

\* "if save < min { save = min } else if save > max { save = max }"
Bound(save, min, max) == IF save < min THEN min ELSE IF save > max THEN max ELSE save

\* The end of the selection that moves: the one that is not the anchor.
ActiveEnd(f) ==
    IF f.selectionStart = f.selectionAnchor THEN f.selectionEnd ELSE f.selectionStart

\* FromSelectionIndex(i).X and .Y with scrollOffset.X, scrollOffset.Y set to the
\* given offset.
XAt(g, i, offset) == FromSelectionIndex([g EXCEPT !.scrollOffset.X = offset], i).v.X

YAt(g, i, offset) == FromSelectionIndex([g EXCEPT !.scrollOffset.Y = offset], i).v.Y

\* "top := FromSelectionIndex(i).Y" and "lineHeightAt(top)" with scrollOffset.Y
\* set to the given offset; height is -1 when lineHeightAt panics.
LineAt(g, i, offset) ==
    With(YAt(g, i, offset), LAMBDA top :
        [top |-> top,
         height |-> lineHeightAt([g EXCEPT !.scrollOffset.Y = offset], top).v])

\* The horizontal part of autoScroll: the new scrollOffset.X.
autoScrollX(g, edge) ==
    Bound(IF edge < RectX THEN RectX - XAt(g, ActiveEnd(g), 0)
          ELSE IF edge >= RectRight(g) THEN RectRight(g) - 1 - XAt(g, ActiveEnd(g), 0)
          ELSE g.scrollOffset.X,
          Min(0, RectRight(g) - 1 - XAt(g, Len(g.runes), 0)),
          Max(0, RectX - XAt(g, 0, 0)))

\* The vertical part of autoScroll: the new scrollOffset.Y, and whether one of
\* the lineHeightAt calls it makes panics.  cur is the line of the active end
\* under the current offset; end, last and first are the lines of selectionEnd,
\* of the end of the buffer and of its start under the offset 0.
autoScrollY(g, cur, end, last, first) ==
    [v |-> Bound(IF cur.top < RectY THEN RectY - YAt(g, ActiveEnd(g), 0)
                 ELSE IF cur.top + cur.height >= RectBottom
                 THEN RectBottom - (end.top + end.height)
                 ELSE g.scrollOffset.Y,
                 Min(0, RectBottom - (last.top + last.height)),
                 Max(0, RectY - (first.top + first.height))),
     bad |-> \/ last.height = -1
             \/ first.height = -1
             \/ (cur.top >= RectY /\ cur.height = -1)
             \/ (cur.top >= RectY /\ cur.top + cur.height >= RectBottom
                   /\ end.height = -1)]

\* autoScroll on a field whose lines are prepared.
autoScrollPrepared(g) ==
    With([g EXCEPT !.scrollOffset.X =
              IF g.width > 0 THEN autoScrollX(g, XAt(g, ActiveEnd(g), g.scrollOffset.X))
              ELSE g.scrollOffset.X], LAMBDA h :
        IF h.multiLine /\ RectH > 0
        THEN With(autoScrollY(h, LineAt(h, ActiveEnd(h), h.scrollOffset.Y),
                              LineAt(h, h.selectionEnd, 0), LineAt(h, Len(h.runes), 0),
                              LineAt(h, 0, 0)), LAMBDA y :
                 IF y.bad THEN Panic(h) ELSE [h EXCEPT !.scrollOffset.Y = y.v])
        ELSE h)

\* autoScroll: moves scrollOffset so that the active end of the selection is
\* inside the content rectangle, then keeps the text from scrolling past its ends.
autoScroll(f) ==
    IF ~f.AutoScroll THEN f
    ELSE IF f.width > 0 \/ (f.multiLine /\ RectH > 0)
    THEN autoScrollPrepared(prepareLinesForCurrentWidth(f))
    ELSE f

\* ScrollSelectionIntoView (ScrollRectIntoView moves only the enclosing scroll
\* panels, which are no part of the field).
ScrollSelectionIntoView(f) ==
    With(autoScroll(f), LAMBDA g :
        IF g.panicked THEN g
        ELSE With(FromSelectionIndex(g, ActiveEnd(g)), LAMBDA pt :
             With(lineHeightAt(pt.f, pt.v.Y), LAMBDA lh :
                 IF lh.v = -1 THEN Panic(lh.f) ELSE lh.f)))

\* A faulty setSelection: the anchor is not brought into the range.
setSelectionLooseAnchor(f, start0, end0, anchor0) ==
    LET length == Len(f.runes)
        start == IF start0 < 0 THEN 0 ELSE IF start0 > length THEN length ELSE start0
        end == IF end0 < start THEN start ELSE IF end0 > length THEN length ELSE end0
    IN  IF f.panicked THEN f
        ELSE IF f.selectionStart # start \/ f.selectionEnd # end
                \/ f.selectionAnchor # anchor0
        THEN [f EXCEPT !.selectionStart = start, !.selectionEnd = end,
                       !.selectionAnchor = anchor0, !.showCursor = TRUE]
        ELSE f

\* setSelection: clamps the range into the buffer and the anchor into the range;
\* nothing more happens when the selection does not change.
setSelection(f, start0, end0, anchor0) ==
    LET length == Len(f.runes)
        start == IF start0 < 0 THEN 0 ELSE IF start0 > length THEN length ELSE start0
        end == IF end0 < start THEN start ELSE IF end0 > length THEN length ELSE end0
        anchor == IF anchor0 < start THEN start ELSE IF anchor0 > end THEN end
                  ELSE anchor0
    IN  IF f.panicked THEN f
        ELSE IF f.selectionStart # start \/ f.selectionEnd # end
                \/ f.selectionAnchor # anchor
        THEN ScrollSelectionIntoView(
                 [f EXCEPT !.selectionStart = start, !.selectionEnd = end,
                           !.selectionAnchor = anchor, !.showCursor = TRUE])
        ELSE f

SetSelection(f, start, end) == setSelection(f, start, end, start)

SetSelectionTo(f, pos) == SetSelection(f, pos, pos)

SetSelectionToStart(f) == SetSelection(f, 0, 0)

\* SetSelectionToEnd passes math.MaxInt64, which setSelection clamps to the length.
SetSelectionToEnd(f) == SetSelection(f, Len(f.runes) + 1, Len(f.runes) + 1)

HasSelectionRange(f) == f.selectionStart < f.selectionEnd

\* NextUndoID: the next value of the global undo id counter.  The field is the
\* only user of the counter, so the id the field holds is the last one handed out.
NextUndoID(f) == f.undoID + 1

\* CurrentUndoID
CurrentUndoID(f) == f.undoID

BumpUndoID(f) == [f EXCEPT !.undoID = NextUndoID(f)]

SelectAll(f) == SetSelection(BumpUndoID(f), 0, Len(f.runes))

\* ------------------------------------------------------------------------
\* Field state, notification and validation
\* ------------------------------------------------------------------------

GetFieldState(f) ==
    [Text |-> StringOf(f.runes), SelectionStart |-> f.selectionStart,
     SelectionEnd |-> f.selectionEnd, SelectionAnchor |-> f.selectionAnchor]

\* What ValidateCallback returns for the current buffer.  The callback of the
\* model accepts every text but the empty one.
ValidateCallbackResult(f) == Len(f.runes) > 0

Validate(f) ==
    LET invalid == IF f.ValidateCallback # "nil" THEN ~ValidateCallbackResult(f)
                   ELSE FALSE
    IN  IF invalid # f.invalid THEN [f EXCEPT !.invalid = invalid] ELSE f

\* A faulty notifyOfModification: the callback gets the two states swapped.
notifyOfModificationSwapped(f, before, after) ==
    IF f.panicked THEN f
    ELSE Validate(IF f.ModifiedCallback
                  THEN [f EXCEPT !.modified =
                            Append(@, [before |-> after, after |-> before])]
                  ELSE f)

\* notifyOfModification: the callback invocation is appended to the log.
notifyOfModification(f, before, after) ==
    IF f.panicked THEN f
    ELSE Validate(IF f.ModifiedCallback
                  THEN [f EXCEPT !.modified =
                            Append(@, [before |-> before, after |-> after])]
                  ELSE f)

\* The tail of every editing operation: "f.notifyOfModification(before,
\* f.GetFieldState())" on the field h the edit has produced.
Notified(h, before) == notifyOfModification(h, before, GetFieldState(h))

RECURSIVE DropLineEnds(_)
DropLineEnds(rs) ==
    IF rs = <<>> THEN <<>>
    ELSE IF Head(rs) # LineFeed /\ Head(rs) # CarriageReturn
    THEN <<Head(rs)>> \o DropLineEnds(Tail(rs))
    ELSE DropLineEnds(Tail(rs))

\* A sanitize that lets every rune through.
sanitizeKeepsAll(f, rs) == rs

sanitize(f, rs) == IF f.multiLine THEN rs ELSE DropLineEnds(rs)

\* A faulty SelectedText: the text as the field draws it.
SelectedTextAsDrawn(f) ==
    StringOf(obscureIfNeeded(f, Slice(f.runes, f.selectionStart, f.selectionEnd)))

SelectedText(f) == StringOf(Slice(f.runes, f.selectionStart, f.selectionEnd))

\* f.runes with the selected range replaced by ins.
ReplaceRange(f, ins) ==
    Slice(f.runes, 0, f.selectionStart) \o ins
        \o Slice(f.runes, f.selectionEnd, Len(f.runes))

\* ------------------------------------------------------------------------
\* Editing
\* ------------------------------------------------------------------------

\* Typing that opens a new undo group with every rune.
DefaultRuneTypedNewGroup(f, ch) ==
    IF IsControl(ch) /\ (~f.multiLine \/ ch # LineFeed) THEN [f |-> f, v |-> FALSE]
    ELSE [f |-> Notified(SetSelectionTo([BumpUndoID(f) EXCEPT
                                             !.runes = ReplaceRange(f, <<ch>>),
                                             !.linesBuiltFor = -1],
                                        f.selectionStart + 1),
                         GetFieldState(f)),
          v |-> TRUE]

\* A faulty DefaultRuneTyped: the caret is not moved past the typed rune.
DefaultRuneTypedNoAdvance(f, ch) ==
    IF IsControl(ch) /\ (~f.multiLine \/ ch # LineFeed) THEN [f |-> f, v |-> FALSE]
    ELSE [f |-> Notified(SetSelectionTo([f EXCEPT !.runes = ReplaceRange(f, <<ch>>),
                                                  !.linesBuiltFor = -1],
                                        f.selectionStart),
                         GetFieldState(f)),
          v |-> TRUE]

DefaultRuneTyped(f, ch) ==
    IF IsControl(ch) /\ (~f.multiLine \/ ch # LineFeed) THEN [f |-> f, v |-> FALSE]
    ELSE [f |-> Notified(SetSelectionTo([f EXCEPT !.runes = ReplaceRange(f, <<ch>>),
                                                  !.linesBuiltFor = -1],
                                        f.selectionStart + 1),
                         GetFieldState(f)),
          v |-> TRUE]

CanDelete(f) == HasSelectionRange(f) \/ f.selectionStart > 0

Delete(f) ==
    IF CanDelete(f)
    THEN LET u == BumpUndoID(f)
         IN  Notified(IF HasSelectionRange(u)
                      THEN SetSelectionTo(
                               [u EXCEPT !.linesBuiltFor = -1,
                                         !.runes = ReplaceRange(u, <<>>)],
                               u.selectionStart)
                      ELSE SetSelectionTo(
                               [u EXCEPT !.linesBuiltFor = -1,
                                         !.runes = Slice(u.runes, 0, u.selectionStart - 1)
                                             \o Slice(u.runes, u.selectionStart,
                                                      Len(u.runes))],
                               u.selectionStart - 1),
                      GetFieldState(u))
    ELSE f

CanCut(f) == HasSelectionRange(f)

Cut(f) ==
    IF HasSelectionRange(f) THEN Delete([f EXCEPT !.clipboard = SelectedText(f)])
    ELSE f

CanCopy(f) == HasSelectionRange(f)

Copy(f) ==
    IF HasSelectionRange(f) THEN [f EXCEPT !.clipboard = SelectedText(f)] ELSE f

CanPaste(f) == f.clipboard # <<>>

\* A faulty Paste: the selected range is not removed before the insertion.
PasteKeepRange(f) ==
    LET text == f.clipboard
    IN  IF text # <<>>
        THEN LET u == BumpUndoID(f)
                 rs == sanitize(u, RunesOf(text))
             IN  Notified(SetSelectionTo(
                              [u EXCEPT !.runes = Slice(u.runes, 0, u.selectionStart) \o rs
                                            \o Slice(u.runes, u.selectionStart,
                                                     Len(u.runes)),
                                        !.linesBuiltFor = -1],
                              u.selectionStart + Len(rs)),
                          GetFieldState(u))
        ELSE IF HasSelectionRange(f) THEN Delete(f)
        ELSE f

\* A Paste that does nothing at all when the clipboard is empty.
PasteGated(f) ==
    LET text == f.clipboard
    IN  IF text # <<>>
        THEN LET u == BumpUndoID(f)
                 rs == sanitize(u, RunesOf(text))
             IN  Notified(SetSelectionTo(
                              [u EXCEPT !.runes = ReplaceRange(u, rs), !.linesBuiltFor = -1],
                              u.selectionStart + Len(rs)),
                          GetFieldState(u))
        ELSE f

Paste(f) ==
    LET text == f.clipboard
    IN  IF text # <<>>
        THEN LET u == BumpUndoID(f)
                 rs == sanitize(u, RunesOf(text))
             IN  Notified(SetSelectionTo(
                              [u EXCEPT !.runes = ReplaceRange(u, rs), !.linesBuiltFor = -1],
                              u.selectionStart + Len(rs)),
                          GetFieldState(u))
        ELSE IF HasSelectionRange(f) THEN Delete(f)
        ELSE f

RunesIfPasted(f, input) == ReplaceRange(f, sanitize(f, input))

CanSelectAll(f) == f.selectionStart # 0 \/ f.selectionEnd # Len(f.runes)

SetText(f, text) ==
    LET rs == sanitize(f, RunesOf(text))
    IN  IF ~RunesEqual(rs, f.runes)
        THEN Notified(SetSelectionToEnd([f EXCEPT !.runes = rs, !.linesBuiltFor = -1]),
                      GetFieldState(f))
        ELSE f

\* A faulty ApplyFieldState: the text is installed with SetText.
ApplyFieldStateBySetText(f, state) ==
    setSelection(SetText(f, state.Text), state.SelectionStart, state.SelectionEnd,
                 state.SelectionAnchor)

\* A faulty ApplyFieldState: the cache of lines outlives the text.
ApplyFieldStateKeepCache(f, state) ==
    LET rs == sanitize(f, RunesOf(state.Text))
    IN  setSelection([f EXCEPT !.runes = rs], state.SelectionStart,
                     state.SelectionEnd, state.SelectionAnchor)

ApplyFieldState(f, state) ==
    LET rs == sanitize(f, RunesOf(state.Text))
        g == IF ~RunesEqual(rs, f.runes)
             THEN [f EXCEPT !.runes = rs, !.linesBuiltFor = -1] ELSE f
    IN  setSelection(g, state.SelectionStart, state.SelectionEnd, state.SelectionAnchor)

Wrap(f) == f.wrap

\* SetWrap: a value that differs from f.wrap marks the field for layout and
\* redraw, which changes nothing the field holds; f.wrap is not assigned.
SetWrap(f, wrap) == f

\* ------------------------------------------------------------------------
\* Word and line scans
\* ------------------------------------------------------------------------

\* isWordPart: index is a 0-based index into the buffer.
isWordPart(f, index) ==
    LET r == f.runes[index + 1] IN IsLetter(r) \/ IsDigit(r) \/ r = 95

\* A faulty findWordAt: the word is not expanded to the left.
findWordAtFromPos(f, pos0) ==
    LET length == Len(f.runes)
        pos == IF pos0 < 0 THEN 0 ELSE IF pos0 >= length THEN length - 1 ELSE pos0
    IN  IF length > 0 /\ isWordPart(f, pos)
        THEN LET ends == {e \in (pos + 1)..length : \A k \in pos..(e - 1) : isWordPart(f, k)}
             IN  [start |-> pos, end |-> CHOOSE e \in ends : \A t \in ends : e >= t]
        ELSE [start |-> pos, end |-> pos]

\* findWordAt: the word around pos as [start, end), empty when pos is on no word.
findWordAt(f, pos0) ==
    LET length == Len(f.runes)
        pos == IF pos0 < 0 THEN 0 ELSE IF pos0 >= length THEN length - 1 ELSE pos0
    IN  IF length > 0 /\ isWordPart(f, pos)
        THEN LET starts == {s \in 0..pos : \A k \in s..pos : isWordPart(f, k)}
                 ends == {e \in (pos + 1)..length : \A k \in pos..(e - 1) : isWordPart(f, k)}
             IN  [start |-> CHOOSE s \in starts : \A t \in starts : s <= t,
                  end |-> CHOOSE e \in ends : \A t \in ends : e >= t]
        ELSE [start |-> pos, end |-> pos]

scanLeftToWordPart(f, pos0) ==
    LET pos == IF pos0 >= Len(f.runes) THEN Len(f.runes) - 1 ELSE pos0
    IN  IF pos < 0 THEN 0
        ELSE LET stops == {p \in 0..pos : p = 0 \/ isWordPart(f, p)}
             IN  CHOOSE p \in stops : \A q \in stops : p >= q

scanRightToWordPart(f, pos0) ==
    IF pos0 >= Len(f.runes) THEN Max(Len(f.runes) - 1, 0)
    ELSE LET pos == IF pos0 < 0 THEN 0 ELSE pos0
             last == Len(f.runes) - 1
             stops == {p \in pos..Max(pos, last) : p >= last \/ isWordPart(f, p)}
         IN  CHOOSE p \in stops : \A q \in stops : p <= q

\* A faulty findPrevLineBreak: the start of the line instead of the line feed
\* in front of it.
findPrevLineBreakAtStart(f, pos0) ==
    With(lineIndexForPos(f, IF pos0 >= Len(f.runes) THEN Len(f.runes) - 1 ELSE pos0 - 1),
         LAMBDA r : [f |-> r.f, v |-> r.start])

findPrevLineBreak(f, pos0) ==
    With(lineIndexForPos(f, IF pos0 >= Len(f.runes) THEN Len(f.runes) - 1 ELSE pos0 - 1),
         LAMBDA r : [f |-> r.f, v |-> Max(r.start - 1, 0)])

\* findNextLineBreak: f.lines[index] is an index out of range when the cache
\* holds no line; the handler panics there.
findNextLineBreak(f, pos0) ==
    With(lineIndexForPos(f, IF pos0 < 0 THEN 0 ELSE pos0 + 1), LAMBDA r :
        IF r.index + 1 \notin DOMAIN r.f.lines THEN [f |-> Panic(r.f), v |-> 0]
        ELSE LET g == r.f
                 start == r.start + Len(g.lines[r.index + 1])
                 adj == IF g.multiLine /\ ~g.endsWithLineFeed[r.index + 1]
                        THEN start - 1 ELSE start
             IN  [f |-> g, v |-> Min(adj, Len(g.runes))])

\* ------------------------------------------------------------------------
\* Keyboard navigation
\* ------------------------------------------------------------------------

handleHome(f, lineOnly, extend) ==
    LET u == BumpUndoID(f)
    IN  IF lineOnly
        THEN With(findPrevLineBreak(u, IF u.selectionStart = 0
                                          \/ u.runes[u.selectionStart] = LineFeed
                                       THEN u.selectionStart + 1 ELSE u.selectionStart),
                  LAMBDA r :
                 LET start == IF r.v # 0 THEN r.v + 1 ELSE r.v
                 IN  setSelection(r.f, start,
                                  IF extend THEN r.f.selectionEnd ELSE start,
                                  IF extend THEN r.f.selectionEnd ELSE start))
        ELSE setSelection(u, 0, IF extend THEN u.selectionEnd ELSE 0,
                          IF extend THEN u.selectionEnd ELSE 0)

handleEnd(f, lineOnly, extend) ==
    LET u == BumpUndoID(f)
    IN  IF lineOnly
        THEN With(findNextLineBreak(u, IF u.selectionEnd = Len(u.runes)
                                          \/ u.runes[u.selectionEnd + 1] = LineFeed
                                       THEN u.selectionEnd - 1 ELSE u.selectionEnd),
                  LAMBDA r :
                 IF r.f.panicked THEN r.f
                 ELSE setSelection(r.f, IF extend THEN r.f.selectionStart ELSE r.v, r.v,
                                   IF extend THEN r.f.selectionStart ELSE r.v))
        ELSE IF extend THEN SetSelection(u, u.selectionStart, Len(u.runes))
        ELSE SetSelectionToEnd(u)

WordStartLeft(f, pos) == findWordAt(f, scanLeftToWordPart(f, pos)).start

WordEndRight(f, pos) == findWordAt(f, scanRightToWordPart(f, pos)).end

\* The move of an arrow key to the left or upwards: from is the index the key
\* moves away from and pos the index it arrives at before the word adjustment.
MoveBack(f, pos, extend, byWord) ==
    IF HasSelectionRange(f)
    THEN IF extend
         THEN LET anchor == f.selectionAnchor
              IN  IF f.selectionStart = anchor
                  THEN setSelection(f, anchor,
                           IF byWord
                           THEN Min(Max(WordStartLeft(f, pos), anchor), pos) ELSE pos,
                           anchor)
                  ELSE setSelection(f,
                           IF byWord THEN Min(WordStartLeft(f, pos), pos) ELSE pos,
                           anchor, anchor)
         ELSE SetSelectionTo(f, f.selectionStart)
    ELSE LET p == IF byWord THEN Min(WordStartLeft(f, pos), pos) ELSE pos
         IN  IF extend THEN setSelection(f, p, f.selectionStart, f.selectionEnd)
             ELSE SetSelectionTo(f, p)

\* The move of an arrow key to the right or downwards.
MoveForward(f, pos, extend, byWord) ==
    IF HasSelectionRange(f)
    THEN IF extend
         THEN LET anchor == f.selectionAnchor
              IN  IF f.selectionEnd = anchor
                  THEN setSelection(f,
                           IF byWord
                           THEN Max(Min(WordEndRight(f, pos), anchor), pos) ELSE pos,
                           anchor, anchor)
                  ELSE setSelection(f, anchor,
                           IF byWord THEN Max(WordEndRight(f, pos), pos) ELSE pos,
                           anchor)
         ELSE SetSelectionTo(f, f.selectionEnd)
    ELSE LET p == IF byWord THEN Max(WordEndRight(f, pos), pos) ELSE pos
         IN  IF extend THEN SetSelection(f, f.selectionStart, p)
             ELSE SetSelectionTo(f, p)

\* The end of the selection a key to the left or upwards moves.
BackEnd(f) ==
    IF HasSelectionRange(f) /\ f.selectionStart = f.selectionAnchor
    THEN f.selectionEnd ELSE f.selectionStart

\* The end of the selection a key to the right or downwards moves.
ForwardEnd(f) ==
    IF HasSelectionRange(f) /\ f.selectionEnd = f.selectionAnchor
    THEN f.selectionStart ELSE f.selectionEnd

handleArrowLeft(f, extend, byWord) ==
    LET u == BumpUndoID(f) IN MoveBack(u, BackEnd(u) - 1, extend, byWord)

handleArrowRight(f, extend, byWord) ==
    LET u == BumpUndoID(f) IN MoveForward(u, ForwardEnd(u) + 1, extend, byWord)

\* An arrow up maps the point one unit above the line of the moved end back to an
\* index; with a range and no extension nothing is mapped.
handleArrowUp(f, extend, byWord) ==
    LET u == BumpUndoID(f)
    IN  IF HasSelectionRange(u) /\ ~extend THEN SetSelectionTo(u, u.selectionStart)
        ELSE With(FromSelectionIndex(u, BackEnd(u)), LAMBDA pt :
             With(ToSelectionIndex(pt.f, [X |-> pt.v.X, Y |-> pt.v.Y - 1]), LAMBDA to :
                 MoveBack(to.f, to.v, extend, byWord)))

\* An arrow down maps the point one unit below the line of the moved end.
handleArrowDown(f, extend, byWord) ==
    LET u == BumpUndoID(f)
    IN  IF HasSelectionRange(u) /\ ~extend THEN SetSelectionTo(u, u.selectionEnd)
        ELSE With(FromSelectionIndex(u, ForwardEnd(u)), LAMBDA pt :
             With(lineHeightAt(pt.f, pt.v.Y), LAMBDA lh :
                 IF lh.v = -1 THEN Panic(lh.f)
                 ELSE With(ToSelectionIndex(lh.f, [X |-> pt.v.X,
                                                   Y |-> pt.v.Y + 1 + lh.v]), LAMBDA to :
                          MoveForward(to.f, to.v, extend, byWord))))

\* ------------------------------------------------------------------------
\* Key, focus and mouse handlers
\* ------------------------------------------------------------------------

\* The Delete key with a caret in front of a rune removes the rune in place.
DeleteForward(f) ==
    Notified([f EXCEPT !.runes = Slice(f.runes, 0, f.selectionStart)
                           \o Slice(f.runes, f.selectionStart + 1, Len(f.runes)),
                       !.linesBuiltFor = -1],
             GetFieldState(f))

\* DefaultKeyDown: mod is [shift, option, cmd], cmd being the OS menu command
\* modifier.  v is the handler's return value.
DefaultKeyDown(f, keyCode, mod) ==
    IF mod.cmd
    THEN [f |-> CASE keyCode = "KeyRight" -> handleEnd(f, f.multiLine, mod.shift)
                  [] keyCode = "KeyDown" -> handleEnd(f, FALSE, mod.shift)
                  [] keyCode = "KeyLeft" -> handleHome(f, f.multiLine, mod.shift)
                  [] keyCode = "KeyUp" -> handleHome(f, FALSE, mod.shift)
                  [] OTHER -> f,
          v |-> FALSE]
    ELSE CASE keyCode = "KeyBackspace" -> [f |-> Delete(f), v |-> TRUE]
           [] keyCode = "KeyDelete" ->
                [f |-> IF HasSelectionRange(f) THEN Delete(f)
                       ELSE IF f.selectionStart < Len(f.runes) THEN DeleteForward(f)
                       ELSE f,
                 v |-> TRUE]
           [] keyCode = "KeyLeft" ->
                [f |-> handleArrowLeft(f, mod.shift, mod.option), v |-> TRUE]
           [] keyCode = "KeyRight" ->
                [f |-> handleArrowRight(f, mod.shift, mod.option), v |-> TRUE]
           [] keyCode = "KeyEnd" -> [f |-> handleEnd(f, f.multiLine, mod.shift), v |-> TRUE]
           [] keyCode = "KeyPageDown" -> [f |-> handleEnd(f, FALSE, mod.shift), v |-> TRUE]
           [] keyCode = "KeyHome" -> [f |-> handleHome(f, f.multiLine, mod.shift), v |-> TRUE]
           [] keyCode = "KeyPageUp" -> [f |-> handleHome(f, FALSE, mod.shift), v |-> TRUE]
           [] keyCode = "KeyDown" ->
                [f |-> IF f.multiLine THEN handleArrowDown(f, mod.shift, mod.option)
                       ELSE handleEnd(f, FALSE, mod.shift),
                 v |-> TRUE]
           [] keyCode = "KeyUp" ->
                [f |-> IF f.multiLine THEN handleArrowUp(f, mod.shift, mod.option)
                       ELSE handleHome(f, FALSE, mod.shift),
                 v |-> TRUE]
           [] keyCode = "KeyTab" -> [f |-> f, v |-> FALSE]
           [] keyCode \in {"KeyReturn", "KeyNumPadEnter"} ->
                IF f.multiLine
                THEN [f |-> DefaultRuneTyped(BumpUndoID(f), LineFeed).f, v |-> TRUE]
                ELSE [f |-> BumpUndoID(f), v |-> FALSE]
           [] keyCode = "KeyEscape" -> [f |-> f, v |-> FALSE]
           [] OTHER -> [f |-> f, v |-> TRUE]

DefaultFocusGained(f) ==
    With(IF ~f.NoSelectAllOnFocus /\ ~HasSelectionRange(f) THEN SelectAll(f) ELSE f,
         LAMBDA g : IF g.panicked THEN g
                    ELSE ScrollSelectionIntoView([g EXCEPT !.showCursor = TRUE]))

\* A faulty DefaultFocusLost: an invalid field does not finish the focus loss.
DefaultFocusLostHeld(f) == IF f.invalid THEN f ELSE BumpUndoID(f)

\* A faulty DefaultFocusLost: the undo group in use is kept.
DefaultFocusLostSameGroup(f) == f

DefaultFocusLost(f) == BumpUndoID(f)

\* Panel.RequestFocus: an unfocused field takes the focus, which runs its
\* GainedFocusCallback.
RequestFocus(f) ==
    IF f.focused THEN f ELSE DefaultFocusGained([f EXCEPT !.focused = TRUE])

\* A faulty DefaultMouseDown on the left button: the shift modifier is ignored.
LeftMouseDownUnshifted(u, to, clickCount, shift) ==
    IF clickCount = 2
    THEN With(SetSelection(to.f, findWordAt(to.f, to.v).start,
                           findWordAt(to.f, to.v).end), LAMBDA g :
             IF g.panicked THEN g ELSE [g EXCEPT !.extendByWord = TRUE])
    ELSE IF clickCount = 3 THEN SelectAll(u)
    ELSE setSelection([to.f EXCEPT !.selectionAnchor = to.v], to.v, to.v, to.v)

\* DefaultMouseDown on the left button, once the field u has the focus.
LeftMouseDown(u, to, clickCount, shift) ==
    IF clickCount = 2
    THEN With(SetSelection(to.f, findWordAt(to.f, to.v).start,
                           findWordAt(to.f, to.v).end), LAMBDA g :
             IF g.panicked THEN g ELSE [g EXCEPT !.extendByWord = TRUE])
    ELSE IF clickCount = 3 THEN SelectAll(u)
    ELSE LET oldAnchor == u.selectionAnchor
         IN  setSelection([to.f EXCEPT !.selectionAnchor = to.v],
                          IF shift THEN Min(oldAnchor, to.v) ELSE to.v,
                          IF shift THEN Max(oldAnchor, to.v) ELSE to.v,
                          to.v)

\* DefaultMouseDown: v is the handler's return value.
DefaultMouseDown(f, where, button, clickCount, shift) ==
    With(RequestFocus(BumpUndoID(f)), LAMBDA u :
        IF u.panicked \/ button # "ButtonLeft" THEN [f |-> u, v |-> FALSE]
        ELSE [f |-> LeftMouseDown([u EXCEPT !.extendByWord = FALSE],
                                  ToSelectionIndex([u EXCEPT !.extendByWord = FALSE],
                                                   where),
                                  clickCount, shift),
              v |-> TRUE])

\* The loop of DefaultMouseDrag that looks for a word from pos towards the word
\* [s1, e1) of the anchor.
RECURSIVE WordSnap(_, _, _, _, _)
WordSnap(f, pos, dir, s1, e1) ==
    LET w == findWordAt(f, pos)
        next == pos + dir
    IN  IF w.start # w.end
        THEN [start |-> IF w.start > s1 THEN s1 ELSE w.start,
              end |-> IF w.end < e1 THEN e1 ELSE w.end]
        ELSE IF (dir > 0 /\ next >= s1) \/ (dir < 0 /\ next <= e1)
        THEN [start |-> s1, end |-> e1]
        ELSE WordSnap(f, next, dir, s1, e1)

\* A test that never lets the loop go.
WordSnapExitNever(dir, next, s1, e1) == FALSE

\* "if dir > 0 && pos >= s1 || dir < 0 && pos <= e1", pos being the position
\* stepped to.
WordSnapExit(dir, next, s1, e1) ==
    (dir > 0 /\ next >= s1) \/ (dir < 0 /\ next <= e1)

\* The positions at which the loop of DefaultMouseDrag calls findWordAt, in
\* order.  The list is cut off once it is longer than len(runes)+1.
RECURSIVE WordSnapVisits(_, _, _, _, _, _)
WordSnapVisits(f, pos, dir, s1, e1, visited) ==
    LET w == findWordAt(f, pos)
        next == pos + dir
        seen == Append(visited, pos)
    IN  IF w.start # w.end THEN seen
        ELSE IF WordSnapExit(dir, next, s1, e1) THEN seen
        ELSE IF Len(seen) > Len(f.runes) + 1 THEN seen
        ELSE WordSnapVisits(f, next, dir, s1, e1, seen)

\* The loop as DefaultMouseDrag enters it with the pointer at index pos.
WordSnapLoop(f, pos) ==
    LET a == findWordAt(f, f.selectionAnchor)
    IN  WordSnapVisits(f, pos, IF pos > a.start THEN -1 ELSE 1, a.start, a.end, <<>>)

\* A faulty DefaultMouseDrag: the drag extends by runes also after a double
\* click.
DefaultMouseDragByRune(f, where) ==
    With(ToSelectionIndex(f, where), LAMBDA to :
        LET oldAnchor == f.selectionAnchor
        IN  setSelection(to.f, Min(to.v, oldAnchor), Max(to.v, oldAnchor), oldAnchor))

DefaultMouseDrag(f, where) ==
    With(ToSelectionIndex(f, where), LAMBDA to :
        LET oldAnchor == f.selectionAnchor
            pos == to.v
            g == to.f
            a == findWordAt(g, oldAnchor)
            r == IF g.extendByWord
                 THEN WordSnap(g, pos, IF pos > a.start THEN -1 ELSE 1, a.start, a.end)
                 ELSE IF pos > oldAnchor THEN [start |-> oldAnchor, end |-> pos]
                 ELSE [start |-> pos, end |-> oldAnchor]
        IN  setSelection(g, r.start, r.end, oldAnchor))

\* ------------------------------------------------------------------------
\* Construction
\* ------------------------------------------------------------------------

\* NewField, and NewMultiLineField when multi is TRUE.  The counter of
\* NextUndoID has handed out its first id.
NewField(multi) ==
    [runes |-> <<>>, lines |-> <<>>, endsWithLineFeed |-> <<>>,
     selectionStart |-> 0, selectionEnd |-> 0, selectionAnchor |-> 0,
     undoID |-> 1, scrollOffset |-> [X |-> 0, Y |-> 0], linesBuiltFor |-> -1,
     ObscurementRune |-> 0, AutoScroll |-> TRUE, NoSelectAllOnFocus |-> FALSE,
     multiLine |-> multi, wrap |-> multi, showCursor |-> FALSE,
     extendByWord |-> FALSE, invalid |-> FALSE, focused |-> FALSE,
     ModifiedCallback |-> FALSE, ValidateCallback |-> "nil", width |-> RectW,
     clipboard |-> <<>>, modified |-> <<>>, panicked |-> FALSE]

\* ------------------------------------------------------------------------
\* The dock header and its tab packer
\* ------------------------------------------------------------------------

\* The most tabs a header holds in the model.
MaxTabs == 3

MinimumTabWidth == 50
TabGap == 4

\* The packer computes in float32.  The model computes exactly, in fractions
\* of a unit fine enough for every share `remaining / fatTabs`: the counts of
\* fat tabs of successive passes are distinct and at most MaxTabs.  The
\* rounding of a share that float32 cannot represent is left out.
RECURSIVE Factorial(_)
Factorial(n) == IF n <= 1 THEN 1 ELSE n * Factorial(n - 1)

Scale == Factorial(MaxTabs)

\* Button.Sizes: the preferred width of a header button whose content is
\* `chars` characters wide (the icon of the maximize button counts for two).
ButtonWidth(chars) == Scale * (8 + 6 * chars)

\* The overflow button's width under the text "»n" (n = 0: no text yet).
OverflowWidth(n) == ButtonWidth(IF n = 0 THEN 0 ELSE 2)

RECURSIVE Sum(_)
Sum(s) == IF s = <<>> THEN 0 ELSE Head(s) + Sum(Tail(s))

\* newDockHeader over a container without dockables: no tabs, then the
\* overflow button and the maximize button.  `width` is the width of the
\* content rectangle, `current` the index the owner reported to the last
\* layout, `laidOut` whether the frames are those of the last layout.
newDockHeader ==
    [tabs |-> <<>>, width |-> 0, current |-> 0, overflowText |-> 0,
     overflowHidden |-> FALSE, overflowX |-> 0, maximizeX |-> 0,
     shrunk |-> FALSE, forced |-> FALSE, laidOut |-> FALSE, panicked |-> FALSE]

\* newDockTab for a dockable whose tab measures `size` wide.
newDockTab(size) == [size |-> size, Hidden |-> FALSE, x |-> 0, width |-> 0]

\* addTab
addTab(d, size, index) ==
    LET at == IF index < 0 \/ index >= Len(d.tabs) THEN Len(d.tabs) ELSE index
    IN  [d EXCEPT !.tabs = SubSeq(@, 1, at) \o <<newDockTab(size)>>
                           \o SubSeq(@, at + 1, Len(@)),
                  !.laidOut = FALSE]

\* close: the tab at `index` is removed.
close(d, index) ==
    [d EXCEPT !.tabs = SubSeq(@, 1, index) \o SubSeq(@, index + 2, Len(@)),
              !.laidOut = FALSE]

\* No tab is taken to be wider than the minimum.
fatNever(s, current, i) == FALSE

\* Tab i (counted from 0) is not the current one and is wider than the minimum.
fat(s, current, i) ==
    i # current /\ s.tabSizes[i + 1] > Scale * MinimumTabWidth

\* Tab i gives up perTab, and what takes it below the minimum is handed back.
shrinkTab(s, perTab, i) ==
    LET width == s.tabSizes[i + 1] - perTab
        floor == Scale * MinimumTabWidth
    IN  [s EXCEPT !.found = TRUE,
                  !.tabSizes[i + 1] = Max(width, floor),
                  !.remaining = @ - perTab + Max(floor - width, 0)]

\* One pass over the tabs from tab i on, stopped as soon as nothing remains.
RECURSIVE shrinkPass(_, _, _, _)
shrinkPass(s, current, perTab, i) ==
    IF i >= Len(s.tabSizes) THEN s
    ELSE With(IF fat(s, current, i) THEN shrinkTab(s, perTab, i) ELSE s,
              LAMBDA t : IF t.remaining <= 0 THEN t
                         ELSE shrinkPass(t, current, perTab, i + 1))

\* "Shrink the non-current tabs down": passes while one found a fat tab and
\* something remains.
RECURSIVE shrink(_, _)
shrink(s, current) ==
    IF ~(s.found /\ s.remaining > 0) THEN s
    ELSE LET fatTabs == Cardinality({i \in 0..(Len(s.tabSizes) - 1) :
                                        fat(s, current, i)})
         IN  IF fatTabs > 0
             THEN shrink(shrinkPass([s EXCEPT !.found = FALSE, !.shrunk = TRUE],
                                    current,
                                    Max(s.remaining \div fatTabs, Scale), 0),
                         current)
             ELSE [s EXCEPT !.found = FALSE]

\* Trimming that does not pass over the current tab.
RECURSIVE trimAny(_, _, _)
trimAny(s, current, i) ==
    IF ~(i >= 0 /\ s.remaining > 0) THEN s
    ELSE trimAny([s EXCEPT !.hidden = @ \cup {i},
                           !.text = Cardinality(s.hidden) + 1,
                           !.remaining = @ - OverflowWidth(s.text)
                                           + OverflowWidth(Cardinality(s.hidden) + 1)
                                           - (s.tabSizes[i + 1] + Scale * TabGap)],
                 current, i - 1)

\* "add the overflow button and start trimming out tabs", from tab i downward.
\* The button is measured again under each new text.
RECURSIVE trim(_, _, _)
trim(s, current, i) ==
    IF ~(i >= 0 /\ s.remaining > 0) THEN s
    ELSE IF i = current THEN trim(s, current, i - 1)
    ELSE trim([s EXCEPT !.hidden = @ \cup {i},
                        !.text = Cardinality(s.hidden) + 1,
                        !.remaining = @ - OverflowWidth(s.text)
                                        + OverflowWidth(Cardinality(s.hidden) + 1)
                                        - (s.tabSizes[i + 1] + Scale * TabGap)],
              current, i - 1)

\* The forced reduction without the floor at the minimum tab width.
reduceCurrentUnfloored(s, current) ==
    IF s.remaining <= 0 THEN s
    ELSE IF current < 0 \/ current >= Len(s.tabSizes)
         THEN [s EXCEPT !.panicked = TRUE]
         ELSE [s EXCEPT !.tabSizes[current + 1] = @ - s.remaining,
                        !.remaining = 0,
                        !.forced = TRUE]

\* "STILL not small enough... reduce the size of the current tab, too".
\* tabSizes[current] is an index out of range when the owner's index is not
\* one of the tabs.
reduceCurrent(s, current) ==
    IF s.remaining <= 0 THEN s
    ELSE IF current < 0 \/ current >= Len(s.tabSizes)
         THEN [s EXCEPT !.panicked = TRUE]
         ELSE [s EXCEPT !.tabSizes[current + 1] =
                            Max(@ - s.remaining, Scale * MinimumTabWidth),
                        !.remaining = 0,
                        !.forced = TRUE]

\* Packing that trims before it has shrunk anything.
packTrimFirst(s, current) ==
    reduceCurrent(
        IF Len(s.tabSizes) > 1
        THEN trim([s EXCEPT !.remaining =
                       @ + OverflowWidth(s.text) + Scale * TabGap],
                  current, Len(s.tabSizes) - 1)
        ELSE s,
        current)

\* Packing whose trimming does not pass over the current tab.
packAny(s, current) ==
    With(shrink(s, current),
         LAMBDA t : IF t.remaining <= 0 THEN [t EXCEPT !.remaining = 0]
                    ELSE reduceCurrent(
                             IF Len(t.tabSizes) > 1
                             THEN trimAny([t EXCEPT !.remaining =
                                            @ + OverflowWidth(t.text) + Scale * TabGap],
                                          current, Len(t.tabSizes) - 1)
                             ELSE t,
                             current))

\* The sizes after the branch `if extra < 0`, entered with remaining = -extra.
pack(s, current) ==
    With(shrink(s, current),
         LAMBDA t : IF t.remaining <= 0 THEN [t EXCEPT !.remaining = 0]
                    ELSE reduceCurrent(
                             IF Len(t.tabSizes) > 1
                             THEN trim([t EXCEPT !.remaining =
                                            @ + OverflowWidth(t.text) + Scale * TabGap],
                                       current, Len(t.tabSizes) - 1)
                             ELSE t,
                             current))

\* The measured sizes and `extra` before the branch `if extra < 0`.
measure(d) ==
    LET tabSizes == [i \in 1..Len(d.tabs) |->
                        Scale * Max(d.tabs[i].size, MinimumTabWidth)]
    IN  [tabSizes |-> tabSizes,
         remaining |-> -(Scale * d.width - Sum(tabSizes) - ButtonWidth(2)
                         - Len(d.tabs) * Scale * TabGap),
         found |-> TRUE, hidden |-> {}, text |-> d.overflowText,
         shrunk |-> FALSE, forced |-> FALSE, panicked |-> FALSE]

\* The x of the frame of tab i: after the visible tabs before it and their gaps.
tabX(s, i) ==
    Sum([j \in 1..i |-> IF (j - 1) \in s.hidden THEN 0
                        ELSE s.tabSizes[j] + Scale * TabGap])

\* Frames that leave the overflow button as it was.
placeButtonKept(d, s, current) ==
    [d EXCEPT !.tabs = [i \in 1..Len(d.tabs) |->
                           IF (i - 1) \in s.hidden
                           THEN [d.tabs[i] EXCEPT !.Hidden = TRUE]
                           ELSE [d.tabs[i] EXCEPT !.Hidden = FALSE,
                                                  !.x = tabX(s, i - 1),
                                                  !.width = s.tabSizes[i]]],
              !.current = current,
              !.overflowText = s.text,
              !.laidOut = TRUE]

\* The frames: the visible tabs from the left, then `extra`, then the buttons.
place(d, s, current) ==
    LET x == tabX(s, Len(s.tabSizes)) - s.remaining
    IN  [d EXCEPT !.tabs = [i \in 1..Len(d.tabs) |->
                               IF (i - 1) \in s.hidden
                               THEN [d.tabs[i] EXCEPT !.Hidden = TRUE]
                               ELSE [d.tabs[i] EXCEPT !.Hidden = FALSE,
                                                      !.x = tabX(s, i - 1),
                                                      !.width = s.tabSizes[i]]],
                  !.current = current,
                  !.overflowText = s.text,
                  !.overflowHidden = (s.hidden = {}),
                  !.overflowX = IF s.hidden = {} THEN @ ELSE x,
                  !.maximizeX = IF s.hidden = {} THEN x
                                ELSE x + OverflowWidth(s.text) + Scale * TabGap,
                  !.shrunk = s.shrunk,
                  !.forced = s.forced,
                  !.laidOut = TRUE]

\* PerformLayout, the owner reporting `current` as its current index.  A
\* panic leaves the frames as they were; the overflow button keeps the text
\* it was given.
PerformLayout(d, current) ==
    With(measure(d),
         LAMBDA m : IF m.remaining <= 0
                    THEN place(d, m, current)
                    ELSE With(pack(m, current),
                              LAMBDA s : IF s.panicked
                                         THEN [d EXCEPT !.panicked = TRUE,
                                                        !.laidOut = FALSE,
                                                        !.current = current,
                                                        !.overflowText = s.text]
                                         ELSE place(d, s, current)))

\* ------------------------------------------------------------------------
\* Paths translated from SVG
\* ------------------------------------------------------------------------

\* Gradient coordinates are fractions of the bounding box, kept in hundredths.
Hundredths == 100

\* strokeCaps and strokeJoins of path.go: the skia value of an SVG cap or
\* join, "" where the map has no entry.
strokeCaps(cap) ==
    CASE cap \in {"NilCap", "ButtCap"} -> "Butt"
      [] cap = "SquareCap" -> "Square"
      [] cap = "RoundCap" -> "Round"
      [] OTHER -> ""

strokeJoins(join) ==
    CASE join = "Round" -> "Round"
      [] join = "Bevel" -> "Bevel"
      [] join = "Miter" -> "Miter"
      [] OTHER -> ""

\* NewPaint: black, no shader.
NewPaint == [style |-> "Fill", color |-> "Black", shader |-> "nil",
             cap |-> "Butt", join |-> "Miter"]

NoError == ""

\* A point scaled by the bounds and not moved to their origin.
gradientPointFromOrigin(bounds, x, y) ==
    [X |-> (bounds.Width * x) \div Hundredths,
     Y |-> (bounds.Height * y) \div Hundredths]

\* Path.gradientPoint over the bounds of the path.
gradientPoint(bounds, x, y) ==
    [X |-> bounds.X + (bounds.Width * x) \div Hundredths,
     Y |-> bounds.Y + (bounds.Height * y) \div Hundredths]

\* Path.gradientRadius
gradientRadius(bounds, r) ==
    (((bounds.Width + bounds.Height) \div 2) * r) \div Hundredths

\* The shader of the inner switch on gradient.Direction; no case matches a
\* direction that is neither Linear nor Radial and the shader stays nil.
gradientShader(bounds, dir) ==
    CASE dir.type = "Linear" ->
             [kind |-> "Linear",
              start |-> gradientPoint(bounds, dir.at[1], dir.at[2]),
              end |-> gradientPoint(bounds, dir.at[3], dir.at[4])]
      [] dir.type = "Radial" ->
             IF dir.at[1] = dir.at[3] /\ dir.at[2] = dir.at[4]
             THEN [kind |-> "Radial",
                   center |-> gradientPoint(bounds, dir.at[1], dir.at[2]),
                   radius |-> gradientRadius(bounds, dir.at[5])]
             ELSE [kind |-> "2PtConical",
                   start |-> gradientPoint(bounds, dir.at[3], dir.at[4]),
                   end |-> gradientPoint(bounds, dir.at[1], dir.at[2]),
                   startRadius |-> gradientRadius(bounds, dir.at[6]),
                   endRadius |-> gradientRadius(bounds, dir.at[5])]
      [] OTHER -> "nil"

\* Path.setPaintPattern: the paint and the error.  The type switch has no
\* default: a pattern that is neither a PlainColor nor a Gradient leaves the
\* paint as it is and returns nil.
setPaintPattern(p, paint, pattern) ==
    CASE pattern.type = "PlainColor" ->
             [paint |-> [paint EXCEPT !.color = "plain"], err |-> NoError]
      [] pattern.type = "Gradient" ->
             IF pattern.units = "userSpaceOnUse"
             THEN IF p.ignoreUnsupported
                  THEN [paint |-> [paint EXCEPT !.color = "Black"], err |-> NoError]
                  ELSE [paint |-> paint,
                        err |-> "gradientUnits=userSpaceOnUse not supported"]
             ELSE [paint |-> [paint EXCEPT !.shader =
                                 gradientShader(p.bounds, pattern.direction)],
                   err |-> NoError]
      [] OTHER -> [paint |-> paint, err |-> NoError]

\* Path.createFillPaint: the path and the error.
createFillPaint(p, style) ==
    IF style.FillerColor.type = "nil" \/ style.FillOpacity = 0
    THEN [p |-> p, err |-> NoError]
    ELSE With(setPaintPattern(p, [NewPaint EXCEPT !.style = "Fill"],
                              style.FillerColor),
              LAMBDA r : [p |-> [p EXCEPT !.fillPaint = r.paint], err |-> r.err])

\* Path.createStrokePaint: the path and the error.
createStrokePaint(p, style) ==
    IF \/ style.LinerColor.type = "nil"
       \/ style.LineOpacity = 0
       \/ style.LineWidth = 0
    THEN [p |-> p, err |-> NoError]
    ELSE IF strokeCaps(style.TrailLineCap) = "" /\ ~p.ignoreUnsupported
    THEN [p |-> p, err |-> "unsupported path stroke cap"]
    ELSE IF strokeJoins(style.LineJoin) = "" /\ ~p.ignoreUnsupported
    THEN [p |-> p, err |-> "unsupported path stroke join"]
    ELSE With(setPaintPattern(
                  p,
                  [NewPaint EXCEPT
                      !.cap = IF strokeCaps(style.TrailLineCap) = "" THEN "Butt"
                              ELSE strokeCaps(style.TrailLineCap),
                      !.join = IF strokeJoins(style.LineJoin) = "" THEN "Round"
                               ELSE strokeJoins(style.LineJoin),
                      !.style = "Stroke"],
                  style.LinerColor),
              LAMBDA r : [p |-> [p EXCEPT !.strokePaint = r.paint], err |-> r.err])

NoPaint == "nil"

\* newPathFromSvgPath: createPath gives the path the bounds of the SVG
\* path's operations; the first error ends the translation.
newPathFromSvgPath(svgPath, ignoreUnsupported) ==
    With(createFillPaint([ignoreUnsupported |-> ignoreUnsupported,
                          bounds |-> svgPath.bounds,
                          fillPaint |-> NoPaint, strokePaint |-> NoPaint],
                         svgPath.Style),
         LAMBDA a : IF a.err # NoError THEN [p |-> NoPaint, err |-> a.err]
                    ELSE With(createStrokePaint(a.p, svgPath.Style),
                              LAMBDA b : IF b.err # NoError
                                         THEN [p |-> NoPaint, err |-> b.err]
                                         ELSE b))

\* Path2.createFillPaint and Path2.createStrokePaint, which set the paint
\* `which`: only a PlainColor is taken.  The maps of path2.go have an entry
\* for every cap and join, which are left out here.
createPaint2(p, which, pattern, drawn) ==
    IF pattern.type = "nil" \/ ~drawn THEN [p |-> p, err |-> NoError]
    ELSE IF pattern.type = "PlainColor"
    THEN [p |-> [p EXCEPT ![which] = [NewPaint EXCEPT !.color = "plain"]],
          err |-> NoError]
    ELSE [p |-> [p EXCEPT ![which] = NewPaint], err |-> "unsupported path style"]

\* newPath2
newPath2(svgPath) ==
    With(createPaint2([ignoreUnsupported |-> FALSE, bounds |-> svgPath.bounds,
                       fillPaint |-> NoPaint, strokePaint |-> NoPaint],
                      "fillPaint", svgPath.Style.FillerColor,
                      svgPath.Style.FillOpacity # 0),
         LAMBDA a : IF a.err # NoError THEN [p |-> NoPaint, err |-> a.err]
                    ELSE With(createPaint2(a.p, "strokePaint",
                                           svgPath.Style.LinerColor,
                                           /\ svgPath.Style.LineOpacity # 0
                                           /\ svgPath.Style.LineWidth # 0),
                              LAMBDA b : IF b.err # NoError
                                         THEN [p |-> NoPaint, err |-> b.err]
                                         ELSE b))

\* No path is being translated.
NoPath ==
    [svgPath |-> [bounds |-> [X |-> 0, Y |-> 0, Width |-> 0, Height |-> 0]],
     ignoreUnsupported |-> FALSE, by |-> "", p |-> NoPaint, err |-> NoError]

\* ------------------------------------------------------------------------
\* Native handles and their release
\* ------------------------------------------------------------------------

\* The most explicit calls of TextBlob.Unref explored.
MaxUnrefs == 2

\* The wrappers that own a native handle.
Wrappers == {"Path", "SVG", "TextBuilder", "TextBlob"}

\* newPath, NewSVGFromReader, NewTextBuilder, newTextBlob: a wrapper that owns
\* a handle and has a finalizer.  `released` counts the native calls that
\* released the handle.
newWrapper ==
    [reachable |-> TRUE, finalizer |-> TRUE, handle |-> TRUE, released |-> 0]

\* The wrappers and the queue of ReleaseOnUIThread; `releases` holds, for
\* each native release so far, the wrapper and the thread that made the call.
NewNative ==
    [objs |-> [w \in Wrappers |-> newWrapper], queue |-> <<>>,
     unrefs |-> 0, releases |-> {}]

\* ReleaseOnUIThread: the task waits for the UI thread.
ReleaseOnUIThread(n, task) == [n EXCEPT !.queue = Append(@, task)]

\* skia.PathDelete, skia.SVGDOMDelete, skia.TextBlobBuilderDelete,
\* skia.TextBlobUnref, called by `thread` on the handle of w.
nativeRelease(n, w, thread) ==
    [n EXCEPT !.objs[w].released = @ + 1,
              !.releases = @ \cup {<<w, thread>>}]

\* TextBlob.Unref
Unref(n) ==
    ReleaseOnUIThread([n EXCEPT !.objs["TextBlob"].finalizer = FALSE],
                      "TextBlob")

\* A finalizer that calls the native release itself.
finalizerInline(n, w, thread) ==
    nativeRelease([n EXCEPT !.objs[w].finalizer = FALSE], w, thread)

\* The finalizer of w, run once by `thread`: that of a TextBlob calls Unref,
\* the others hand the native delete to ReleaseOnUIThread.
finalizer(n, w, thread) ==
    IF w = "TextBlob" THEN Unref(n)
    ELSE ReleaseOnUIThread([n EXCEPT !.objs[w].finalizer = FALSE], w)

\* A task that releases the handle of a TextBlob without looking at it.
releaseTaskUnchecked(n, w, thread) ==
    [nativeRelease(n, w, thread) EXCEPT !.objs[w].handle = FALSE]

\* The task queued for w, run by `thread`: a TextBlob is released unless its
\* handle is nil already, and its handle becomes nil.
releaseTask(n, w, thread) ==
    IF w = "TextBlob"
    THEN IF n.objs[w].handle
         THEN [nativeRelease(n, w, thread) EXCEPT !.objs[w].handle = FALSE]
         ELSE n
    ELSE nativeRelease(n, w, thread)

\* ------------------------------------------------------------------------
\* Fields with longer texts, for the scans and the coordinate mapping
\* ------------------------------------------------------------------------

\* SetScrollOffset
SetScrollOffset(f, offset) ==
    IF f.AutoScroll /\ f.scrollOffset # offset THEN [f EXCEPT !.scrollOffset = offset]
    ELSE f

\* A constructed field whose content rectangle is `width` wide, after
\* SetText(text) and SetScrollOffset(offset).
ScanField(multi, width, text, offset) ==
    SetScrollOffset(SetText([NewField(multi) EXCEPT !.width = width], text), offset)

\* No call made yet: result holds what the call returns and after the field
\* the call leaves.
NoScan ==
    [field |-> NewField(FALSE), call |-> "none", arg |-> 0, result |-> <<>>,
     after |-> NewField(FALSE)]

\* ------------------------------------------------------------------------
\* The blinking of the cursor
\* ------------------------------------------------------------------------

\* The count of idle blink callbacks stops at MaxIdle.
MaxIdle == 2

\* What the blinking depends on: whether the field is focused and enabled,
\* whether its window is there and valid, whether a range is selected, the
\* pending flag and showCursor; tasks is the number of blink tasks handed to
\* InvokeTaskAfter that have not run yet.  idle counts the blink callbacks run
\* since the field was last focused and enabled, last names the last event and
\* armed tells whether that event handed a task to InvokeTaskAfter.
NewCursor ==
    [focused |-> FALSE, enabled |-> TRUE, valid |-> TRUE, range |-> FALSE,
     pending |-> FALSE, showCursor |-> FALSE, tasks |-> 0, idle |-> 0,
     last |-> "none", armed |-> FALSE]

scheduleBlink(c) ==
    IF c.valid /\ ~c.pending /\ c.enabled /\ c.focused
    THEN [c EXCEPT !.pending = TRUE, !.tasks = @ + 1, !.armed = TRUE]
    ELSE c

\* blink, the task: elapsed tells whether forceShowUntil has passed.
blink(c, elapsed) ==
    IF c.valid
    THEN scheduleBlink([c EXCEPT !.pending = FALSE,
                                 !.showCursor = IF elapsed THEN ~@ ELSE @])
    ELSE c

\* DefaultDraw, as far as the cursor goes: a focused and enabled field without
\* a selected range draws its caret and calls scheduleBlink.
drawCursor(c) ==
    IF ~c.range /\ c.enabled /\ c.focused THEN scheduleBlink(c) ELSE c

\* ------------------------------------------------------------------------
\* The popup menu
\* ------------------------------------------------------------------------

MaxItems == 3

\* The item of a separator, a *popupSeparationMarker.
Separator == "-"

\* NewPopupMenu: no items, selectedIndex 0, no SelectionCallback.  `call`,
\* `arg` and `was` record the last call, its index and the selectedIndex
\* before it.
NewPopupMenu ==
    [items |-> <<>>, selectedIndex |-> 0, call |-> "none", arg |-> 0, was |-> 0]

\* AddItem
AddItem(p, item) ==
    [p EXCEPT !.items = Append(@, [item |-> item, enabled |-> TRUE])]

\* AddDisabledItem
AddDisabledItem(p, item) ==
    [p EXCEPT !.items = Append(@, [item |-> item, enabled |-> FALSE])]

\* AddSeparator
AddSeparator(p) == AddDisabledItem(p, Separator)

\* IndexOfItem: the first index that holds the item, -1 when none does.
IndexOfItem(p, item) ==
    LET found == {i \in 0..(Len(p.items) - 1) : p.items[i + 1].item = item}
    IN  IF found = {} THEN -1
        ELSE CHOOSE i \in found : \A j \in found : i <= j

\* RemoveAllItems
RemoveAllItems(p) == [p EXCEPT !.selectedIndex = 0, !.items = <<>>]

\* Removal that leaves selectedIndex as it is.
RemoveItemAtKeepSelected(p, index) ==
    IF index >= 0 /\ index < Len(p.items)
    THEN [p EXCEPT !.items = SubSeq(@, 1, index) \o SubSeq(@, index + 2, Len(@))]
    ELSE p

\* RemoveItemAt
RemoveItemAt(p, index) ==
    IF index >= 0 /\ index < Len(p.items)
    THEN LET length == Len(p.items)
         IN  [p EXCEPT !.selectedIndex =
                           IF @ = index
                           THEN IF @ > length - 2 THEN Max(length - 2, 0) ELSE @
                           ELSE IF @ > index THEN @ - 1 ELSE @,
                       !.items = SubSeq(@, 1, index)
                                 \o SubSeq(@, index + 2, Len(@))]
    ELSE p

\* RemoveItem
RemoveItem(p, item) == RemoveItemAt(p, IndexOfItem(p, item))

\* ItemCount
ItemCount(p) == Len(p.items)

\* SetItemAt
SetItemAt(p, index, item, enabled) ==
    IF index >= 0 /\ index < Len(p.items) /\ p.items[index + 1].item # item
    THEN [p EXCEPT !.items[index + 1] = [item |-> item, enabled |-> enabled]]
    ELSE p

\* SelectIndex
SelectIndex(p, index) ==
    IF index # p.selectedIndex /\ index >= 0 /\ index < Len(p.items)
    THEN [p EXCEPT !.selectedIndex = index]
    ELSE p

\* Select
Select(p, item) == SelectIndex(p, IndexOfItem(p, item))

\* ------------------------------------------------------------------------
\* The ink dialog of a well
\* ------------------------------------------------------------------------

\* The colors of the model: red and green are 0 or 255, blue is 0 and alpha
\* is 255.  `kind` is the type of the ink.
Colors == [kind : {"Color"}, red : {0, 255}, green : {0, 255}]

RGB(red, green) == [kind |-> "Color", red |-> red, green |-> green]

Black == RGB(0, 0)

\* An ink that is no Color, a *Pattern.
PatternInk == [kind |-> "Pattern", red |-> 0, green |-> 0]

\* "d.ink.(Color)"
IsColor(ink) == ink.kind = "Color"

\* "color, ok := d.ink.(Color); if !ok { color = Black }"
colorOrBlack(ink) == IF IsColor(ink) THEN ink ELSE Black

\* int(t.Hue()*360 + 0.5)
HueDegrees(c) ==
    IF c.green = 0 THEN 0 ELSE IF c.red = 255 THEN 60 ELSE 120

\* Color.SetHue with the hue in degrees; black has no brightness and stays
\* black.
SetHue(c, degrees) ==
    IF c = Black THEN c
    ELSE IF degrees = 0 THEN RGB(255, 0)
    ELSE IF degrees = 60 THEN RGB(255, 255)
    ELSE RGB(0, 255)

\* strconv.Itoa for the numbers of the model.
Itoa(v) ==
    IF v = 0 THEN "0" ELSE IF v = 60 THEN "60" ELSE IF v = 120 THEN "120" ELSE "255"

\* Color.String
ColorString(c) ==
    IF c = Black THEN "Black"
    ELSE IF c.green = 0 THEN "Red"
    ELSE IF c.red = 255 THEN "Yellow" ELSE "Lime"

\* ColorDecode: the color of a text, or an error.
ColorDecode(text) ==
    IF \E c \in Colors : ColorString(c) = text
    THEN [err |-> FALSE, color |-> CHOOSE c \in Colors : ColorString(c) = text]
    ELSE [err |-> TRUE, color |-> Black]

\* strconv.Atoi after "text = strings.TrimSpace(field.Text()); if text == ""
\* { text = "0" }", with the range check `top` of the field.
AtoiInRange(text, top) ==
    IF text \in {"", "0"} THEN [err |-> FALSE, v |-> 0]
    ELSE IF text = "60" /\ 60 <= top THEN [err |-> FALSE, v |-> 60]
    ELSE IF text = "120" /\ 120 <= top THEN [err |-> FALSE, v |-> 120]
    ELSE IF text = "255" /\ 255 <= top THEN [err |-> FALSE, v |-> 255]
    ELSE [err |-> TRUE, v |-> 0]

\* The fields of the color selector the model has, in the order sync goes
\* through them.
WellFields == <<"red", "green", "hue", "css">>

WellFieldNames == {WellFields[i] : i \in 1..Len(WellFields)}

\* The text sync gives a field for the color t.
WellText(name, t) ==
    IF name = "red" THEN Itoa(t.red)
    ELSE IF name = "green" THEN Itoa(t.green)
    ELSE IF name = "hue" THEN Itoa(HueDegrees(t))
    ELSE ColorString(t)

\* showWellDialog for a well with the ink `ink`: the fields show the ink, or
\* black for an ink that is no color.  `nested` counts the calls of sync made
\* while syncing, `changed` the changes of d.ink made while syncing, and
\* `validated` the validation callbacks the last event ran while syncing.
showWellDialog(ink) ==
    [ink |-> ink, syncing |-> FALSE, focus |-> "none",
     text |-> [name \in WellFieldNames |-> WellText(name, colorOrBlack(ink))],
     invalid |-> [name \in WellFieldNames |-> FALSE],
     nested |-> 0, changed |-> 0, validated |-> 0, last |-> "none"]

\* A guard that takes no sync to be running.
NotSyncingAssumed(d) == TRUE

\* "if !d.syncing"
NotSyncing(d) == ~d.syncing

\* "d.ink = ..."
SetInk(d, ink) ==
    [d EXCEPT !.ink = ink,
              !.changed = IF d.syncing /\ ink # d.ink THEN @ + 1 ELSE @]

\* The callback is entered.
Entered(d) == [d EXCEPT !.validated = IF d.syncing THEN @ + 1 ELSE @]

RECURSIVE sync(_)
RECURSIVE syncFrom(_, _, _)
RECURSIVE syncText(_, _, _)
RECURSIVE WellSetText(_, _, _)
RECURSIVE WellValidate(_, _)
RECURSIVE ValidateCallback(_, _)

\* The ValidateCallback of the field `name`: that of addChannelField for red
\* and green, of addHueField for hue and of addCSSField for css.  The result
\* is the dialog after the call and the value returned.
ValidateCallback(d, name) ==
    IF name = "css"
    THEN IF NotSyncing(d)
         THEN With(ColorDecode(d.text[name]), LAMBDA r :
                  IF r.err THEN [d |-> d, v |-> FALSE]
                  ELSE [d |-> sync(SetInk(d, r.color)), v |-> TRUE])
         ELSE [d |-> d, v |-> TRUE]
    ELSE With(AtoiInRange(d.text[name], IF name = "hue" THEN 360 ELSE 255),
              LAMBDA r :
                  IF r.err THEN [d |-> d, v |-> FALSE]
                  ELSE IF NotSyncing(d)
                  THEN With(colorOrBlack(d.ink), LAMBDA color :
                           [d |-> sync(SetInk(d,
                                    IF name = "red" THEN [color EXCEPT !.red = r.v]
                                    ELSE IF name = "green"
                                    THEN [color EXCEPT !.green = r.v]
                                    ELSE SetHue(color, r.v))),
                            v |-> TRUE])
                  ELSE [d |-> d, v |-> TRUE])

\* Field.Validate of the field `name`.
WellValidate(d, name) ==
    With(ValidateCallback(Entered(d), name),
         LAMBDA r : [r.d EXCEPT !.invalid[name] = ~r.v])

\* Field.SetText of the field `name`: a text that differs is taken and
\* validated.
WellSetText(d, name, text) ==
    IF text # d.text[name]
    THEN WellValidate([d EXCEPT !.text[name] = text], name)
    ELSE d

\* syncText
syncText(d, name, text) ==
    IF d.focus # name THEN WellSetText(d, name, text) ELSE d

\* The syncText calls of sync from the i-th field on, for the color t that
\* d.ink was when sync looked at it.
syncFrom(d, t, i) ==
    IF i > Len(WellFields) THEN d
    ELSE syncFrom(syncText(d, WellFields[i], WellText(WellFields[i], t)), t, i + 1)

\* sync
sync(d) ==
    With([d EXCEPT !.syncing = TRUE,
                   !.nested = IF d.syncing THEN @ + 1 ELSE @],
         LAMBDA s : [(IF IsColor(s.ink) THEN syncFrom(s, s.ink, 1) ELSE s)
                        EXCEPT !.syncing = FALSE])

\* ------------------------------------------------------------------------
\* The state machine
\* ------------------------------------------------------------------------

\* f    the field, the clipboard and the callback log
\* pc   "run" while operations follow one another freely; "probe" before and
\*      "done" after the single recorded operation of SpecStep
\* pre  the field before the recorded operation
\* op   the recorded operation and its arguments
\* ret  what the recorded operation returned
\* header  the header of a dock container
\* path  the SVG path being translated and the result
\* native  the wrappers of native handles and the release queue
\* scan  a field with a text of its own and the one call made on it
\* cursor  what the blinking of the cursor depends on, and the blink tasks
\* menu  a popup menu: its items and selectedIndex, and the last call on it
\* dialog  the ink dialog of a well: its ink, the syncing flag and its fields
VARIABLES f, pc, pre, op, ret, header, path, native, scan, cursor, menu, dialog

vars == <<f, pc, pre, op, ret, header, path, native, scan, cursor, menu, dialog>>

\* Inputs of the handlers.  A free run explores long sequences of operations
\* over the first set, the single recorded operation is explored over the second.
Inputs(run, probe) == IF pc \in {"run", "twin"} THEN run ELSE probe

Keys ==
    {"KeyBackspace", "KeyDelete", "KeyLeft", "KeyRight", "KeyEnd", "KeyPageDown",
     "KeyHome", "KeyPageUp", "KeyDown", "KeyUp", "KeyTab", "KeyReturn",
     "KeyNumPadEnter", "KeyEscape", "KeyA"}

Modifiers == [shift : BOOLEAN, option : BOOLEAN, cmd : BOOLEAN]

TypedRunes ==
    Inputs({LetterA, LineFeed, CarriageReturn},
           {LetterA, LineFeed, CarriageReturn, Surrogate})

\* Mouse clicks: the button, the click count and the shift modifier.
Clicks ==
    {[button |-> "ButtonRight", clickCount |-> 1, shift |-> FALSE],
     [button |-> "ButtonLeft", clickCount |-> 1, shift |-> FALSE],
     [button |-> "ButtonLeft", clickCount |-> 1, shift |-> TRUE],
     [button |-> "ButtonLeft", clickCount |-> 2, shift |-> FALSE],
     [button |-> "ButtonLeft", clickCount |-> 3, shift |-> FALSE]}

Points == [X : {0, 2, 4}, Y : {-1, 1, 3, 5}]

InputTexts ==
    Inputs({<<>>, <<LetterA, LineFeed>>},
           {<<>>, <<LetterA>>, <<LetterA, LineFeed>>, <<CarriageReturn>>, <<BadByte>>})

InputRunes ==
    Inputs({<<LetterA>>},
           {<<>>, <<LetterA>>, <<LetterA, LineFeed, LetterA>>, <<Tab, CarriageReturn>>})

ClipboardTexts ==
    Inputs({<<>>, <<LetterA>>},
           {<<>>, <<LetterA>>, <<LineFeed>>, <<CarriageReturn, LetterA>>, <<BadByte>>})

Indexes == {-1, 0, 1, MaxLen + 1}

FieldStates ==
    Inputs({[Text |-> <<>>, SelectionStart |-> 0, SelectionEnd |-> 0,
             SelectionAnchor |-> 0],
            [Text |-> <<LineFeed, LetterA>>, SelectionStart |-> -1,
             SelectionEnd |-> MaxLen + 1, SelectionAnchor |-> 1],
            [Text |-> <<LineFeed, LetterA>>, SelectionStart |-> 1,
             SelectionEnd |-> 0, SelectionAnchor |-> MaxLen + 1]},
           [Text : {<<>>, <<LetterA, LineFeed>>, <<BadByte>>}, SelectionStart : Indexes,
            SelectionEnd : Indexes, SelectionAnchor : Indexes])

NoOp ==
    [name |-> "none", ch |-> 0, text |-> <<>>, where |-> [X |-> 0, Y |-> 0],
     click |-> [button |-> "none", clickCount |-> 0, shift |-> FALSE],
     mod |-> [shift |-> FALSE, option |-> FALSE, cmd |-> FALSE], flag |-> FALSE]

NoRet == [ok |-> FALSE, runes |-> <<>>]

\* The undo ids are only ever compared with one another, so a free run keeps
\* the counter at its first value between operations.
Renumber(g) == [g EXCEPT !.undoID = 1]

\* One operation `o` turning the field into g and returning v.
Step(o, g, v) ==
    /\ pc # "done"
    /\ ~f.panicked
    /\ pc = "run" => Len(g.runes) <= MaxLen
    /\ IF pc = "run"
       THEN f' = Renumber(g) /\ UNCHANGED <<pc, pre, op, ret>>
       ELSE /\ pc = "probe"
            /\ f' = g
            /\ pc' = "done"
            /\ pre' = f
            /\ op' = o
            /\ ret' = v
    /\ UNCHANGED <<header, path, native, scan, cursor, menu, dialog>>

Named(n) == [NoOp EXCEPT !.name = n]

Ok(b) == [NoRet EXCEPT !.ok = b]

\* One operation `o` whose handler returned r: the field r.f and the value r.v.
StepResult(o, r) == Step(o, r.f, Ok(r.v))

KeyDown ==
    \E keyCode \in Keys, mod \in Modifiers :
        StepResult([NoOp EXCEPT !.name = keyCode, !.mod = mod],
                   DefaultKeyDown(f, keyCode, mod))

RuneTyped ==
    \E ch \in TypedRunes :
        StepResult([NoOp EXCEPT !.name = "RuneTyped", !.ch = ch], DefaultRuneTyped(f, ch))

MouseDown ==
    \E where \in Points, click \in Clicks :
        StepResult([NoOp EXCEPT !.name = "MouseDown", !.where = where, !.click = click],
                   DefaultMouseDown(f, where, click.button, click.clickCount, click.shift))

MouseDrag ==
    \E where \in Points :
        Step([NoOp EXCEPT !.name = "MouseDrag", !.where = where],
             DefaultMouseDrag(f, where), Ok(TRUE))

FocusGained ==
    /\ ~f.focused
    /\ Step(Named("FocusGained"), RequestFocus(f), NoRet)

FocusLost ==
    /\ f.focused
    /\ Step(Named("FocusLost"), DefaultFocusLost([f EXCEPT !.focused = FALSE]), NoRet)

DoCut == Step(Named("Cut"), Cut(f), NoRet)

DoCopy == Step(Named("Copy"), Copy(f), NoRet)

DoPaste == Step(Named("Paste"), Paste(f), NoRet)

DoDelete == Step(Named("Delete"), Delete(f), NoRet)

DoSelectAll == Step(Named("SelectAll"), SelectAll(f), NoRet)

DoSetText ==
    \E text \in InputTexts :
        Step([NoOp EXCEPT !.name = "SetText", !.text = text], SetText(f, text), NoRet)

DoSetSelection ==
    \E start \in Indexes, end \in Indexes :
        Step(Named("SetSelection"), SetSelection(f, start, end), NoRet)

DoSetSelectionToStart == Step(Named("SetSelectionToStart"), SetSelectionToStart(f), NoRet)

DoSetSelectionToEnd == Step(Named("SetSelectionToEnd"), SetSelectionToEnd(f), NoRet)

DoValidate == Step(Named("Validate"), Validate(f), NoRet)

DoSetWrap ==
    \E wrap \in BOOLEAN :
        Step([NoOp EXCEPT !.name = "SetWrap", !.flag = wrap], SetWrap(f, wrap), NoRet)

DoApplyFieldState ==
    \E state \in FieldStates :
        Step([NoOp EXCEPT !.name = "ApplyFieldState", !.text = state.Text],
             ApplyFieldState(f, state), NoRet)

\* An undo step in its simplest form: the captured state is applied at once.
RestoreFieldState ==
    Step(Named("RestoreFieldState"), ApplyFieldState(f, GetFieldState(f)), NoRet)

DoRunesIfPasted ==
    \E input \in InputRunes :
        Step([NoOp EXCEPT !.name = "RunesIfPasted", !.text = input], f,
             [NoRet EXCEPT !.runes = RunesIfPasted(f, input)])

\* Another application puts text on the global clipboard.
ClipboardSet ==
    \E text \in ClipboardTexts :
        /\ text # f.clipboard
        /\ Step(Named("ClipboardSet"), [f EXCEPT !.clipboard = text], NoRet)

Next ==
    \/ KeyDown
    \/ RuneTyped
    \/ MouseDown
    \/ MouseDrag
    \/ FocusGained
    \/ FocusLost
    \/ DoCut
    \/ DoCopy
    \/ DoPaste
    \/ DoDelete
    \/ DoSelectAll
    \/ DoSetText
    \/ DoSetSelection
    \/ DoSetSelectionToStart
    \/ DoSetSelectionToEnd
    \/ DoValidate
    \/ DoSetWrap
    \/ DoApplyFieldState
    \/ RestoreFieldState
    \/ DoRunesIfPasted
    \/ ClipboardSet

\* The field as constructed; the client has installed a ValidateCallback.
Init ==
    /\ \E multi \in BOOLEAN :
           f = [NewField(multi) EXCEPT !.ValidateCallback = "nonEmpty"]
    /\ pc = "run"
    /\ pre = NewField(FALSE)
    /\ op = NoOp
    /\ ret = NoRet
    /\ header = newDockHeader
    /\ path = NoPath
    /\ native = NewNative
    /\ dialog = showWellDialog(Black)
    /\ menu = NewPopupMenu
    /\ cursor = NewCursor
    /\ scan = NoScan

Spec == Init /\ [][Next]_vars

\* ------------------------------------------------------------------------
\* One recorded operation on a field that has been set up
\* ------------------------------------------------------------------------

SetupTexts == {<<>>, <<LetterA>>, <<LetterA, LineFeed>>, <<LineFeed, LetterA>>}

SetupTyped == {<<>>, <<Surrogate>>}

SetupClipboards == {<<>>, <<LetterA, LineFeed, LetterA>>, <<Tab, CarriageReturn>>}

\* The values of ObscurementRune: none, and '*'.
Asterisk == 42

Masks == {0, Asterisk}

SetupSelections ==
    {s \in [start : 0..MaxLen, end : 0..MaxLen, anchor : 0..MaxLen] :
        s.start <= s.anchor /\ s.anchor <= s.end}

RECURSIVE TypeAll(_, _)
TypeAll(g, rs) ==
    IF rs = <<>> THEN g ELSE TypeAll(DefaultRuneTyped(g, Head(rs)).f, Tail(rs))

\* Placing the selection: SetSelection when the anchor is the start of the
\* range, and ApplyFieldState of the field's own text otherwise.
Place(g, sel) ==
    IF sel.anchor = sel.start THEN SetSelection(g, sel.start, sel.end)
    ELSE ApplyFieldState(g, [Text |-> StringOf(g.runes), SelectionStart |-> sel.start,
                             SelectionEnd |-> sel.end, SelectionAnchor |-> sel.anchor])

\* A new field with its callbacks and ObscurementRune set and the clipboard filled.
Installed(multi, validate, clip, mask) ==
    [NewField(multi) EXCEPT !.ModifiedCallback = TRUE, !.ValidateCallback = validate,
                            !.clipboard = clip, !.ObscurementRune = mask]

\* The field a client gets by constructing it, installing its callbacks, giving
\* it the focus or not, setting its text, typing, and placing the selection.
\* The callback log starts empty.
Setup(multi, validate, focus, clip, text, typed, sel, mask) ==
    [Place(TypeAll(SetText(IF focus
                           THEN RequestFocus(Installed(multi, validate, clip, mask))
                           ELSE Installed(multi, validate, clip, mask),
                           text),
                   typed),
           sel) EXCEPT !.modified = <<>>]

InitStep ==
    /\ \E multi \in BOOLEAN, validate \in {"nil", "nonEmpty"}, focus \in BOOLEAN,
          clip \in SetupClipboards, text \in SetupTexts, typed \in SetupTyped,
          sel \in SetupSelections, mask \in Masks :
           /\ Len(text) + Len(typed) <= MaxLen
           /\ mask # 0 => validate = "nil"
           /\ f = Setup(multi, validate, focus, clip, text, typed, sel, mask)
    /\ pc = "probe"
    /\ pre = NewField(FALSE)
    /\ op = NoOp
    /\ ret = NoRet
    /\ header = newDockHeader
    /\ path = NoPath
    /\ native = NewNative
    /\ dialog = showWellDialog(Black)
    /\ menu = NewPopupMenu
    /\ cursor = NewCursor
    /\ scan = NoScan

SpecStep == InitStep /\ [][Next]_vars

\* ------------------------------------------------------------------------
\* Two fields receiving the same events
\* ------------------------------------------------------------------------

\* In SpecTwin, f and pre are two fields that are constructed alike and differ
\* in their ValidateCallback; every event is delivered to both.  op is the last
\* event when it was delivered to fields that disagreed on validity, and no
\* event otherwise.

\* The undo ids of the two fields are renumbered together, and only while they
\* agree.
RenumberBoth(g, h) ==
    IF g.undoID = h.undoID THEN <<Renumber(g), Renumber(h)>> ELSE <<g, h>>

\* One event `o` turning the field f into g and the field pre into h.
TwinStep(o, g, h) ==
    /\ pc = "twin"
    /\ ~f.panicked /\ ~pre.panicked
    /\ Len(g.runes) <= MaxLen /\ Len(h.runes) <= MaxLen
    /\ f' = RenumberBoth(g, h)[1]
    /\ pre' = RenumberBoth(g, h)[2]
    /\ op' = IF f.invalid # pre.invalid /\ o.name = "FocusLost" THEN o ELSE NoOp
    /\ UNCHANGED <<pc, ret, header, path, native, scan, cursor, menu, dialog>>

TwinKeyDown ==
    \E keyCode \in Keys, mod \in Modifiers :
        TwinStep(Named(keyCode), DefaultKeyDown(f, keyCode, mod).f,
                 DefaultKeyDown(pre, keyCode, mod).f)

TwinRuneTyped ==
    \E ch \in TypedRunes :
        TwinStep([NoOp EXCEPT !.name = "RuneTyped", !.ch = ch],
                 DefaultRuneTyped(f, ch).f, DefaultRuneTyped(pre, ch).f)

TwinMouseDown ==
    \E where \in Points, click \in Clicks :
        TwinStep(Named("MouseDown"),
                 DefaultMouseDown(f, where, click.button, click.clickCount, click.shift).f,
                 DefaultMouseDown(pre, where, click.button, click.clickCount,
                                  click.shift).f)

TwinMouseDrag ==
    \E where \in Points :
        TwinStep(Named("MouseDrag"), DefaultMouseDrag(f, where),
                 DefaultMouseDrag(pre, where))

TwinFocusGained ==
    /\ ~f.focused /\ ~pre.focused
    /\ TwinStep(Named("FocusGained"), RequestFocus(f), RequestFocus(pre))

TwinFocusLost ==
    /\ f.focused /\ pre.focused
    /\ TwinStep(Named("FocusLost"), DefaultFocusLost([f EXCEPT !.focused = FALSE]),
                DefaultFocusLost([pre EXCEPT !.focused = FALSE]))

TwinPaste == TwinStep(Named("Paste"), Paste(f), Paste(pre))

TwinSetText ==
    \E text \in InputTexts :
        TwinStep([NoOp EXCEPT !.name = "SetText", !.text = text], SetText(f, text),
                 SetText(pre, text))

\* Another application puts text on the global clipboard, which both fields see.
TwinClipboardSet ==
    \E text \in ClipboardTexts :
        /\ text # f.clipboard
        /\ TwinStep(Named("ClipboardSet"), [f EXCEPT !.clipboard = text],
                    [pre EXCEPT !.clipboard = text])

NextTwin ==
    \/ TwinKeyDown
    \/ TwinRuneTyped
    \/ TwinMouseDown
    \/ TwinMouseDrag
    \/ TwinFocusGained
    \/ TwinFocusLost
    \/ TwinPaste
    \/ TwinSetText
    \/ TwinClipboardSet

\* Two fields constructed alike: the first with a ValidateCallback that rejects
\* the empty text, the second with none, so that the callbacks' results differ
\* whenever the buffer is empty.
InitTwin ==
    /\ \E multi \in BOOLEAN :
           /\ f = [NewField(multi) EXCEPT !.ValidateCallback = "nonEmpty"]
           /\ pre = NewField(multi)
    /\ pc = "twin"
    /\ op = NoOp
    /\ ret = NoRet
    /\ header = newDockHeader
    /\ path = NoPath
    /\ native = NewNative
    /\ dialog = showWellDialog(Black)
    /\ menu = NewPopupMenu
    /\ cursor = NewCursor
    /\ scan = NoScan

SpecTwin == InitTwin /\ [][NextTwin]_vars

\* ------------------------------------------------------------------------
\* The dock header: tabs come and go, the header is resized and laid out
\* ------------------------------------------------------------------------

\* The widths the tabs measure, in units: below and above MinimumTabWidth.
TabWidths == {30, 100}

\* The widths of the header's content rectangle: none, one that three tabs at
\* their minimum do not fit, and one that leaves 220 to three tabs after the
\* maximize button and the gaps.
ContentWidths == {0, 160, 252}

\* The indexes the owner reports as its current dockable: none, and each
\* position a tab can have.
Currents == -1..(MaxTabs - 1)

\* One step of the header, which becomes d.
DockStep(d) ==
    /\ pc = "dock"
    /\ ~header.panicked
    /\ header' = d
    /\ UNCHANGED <<f, pc, pre, op, ret, path, native, scan, cursor, menu, dialog>>

DockAddTab ==
    \E size \in TabWidths, index \in -1..MaxTabs :
        /\ Len(header.tabs) < MaxTabs
        /\ DockStep(addTab(header, size, index))

DockClose ==
    \E index \in 0..(Len(header.tabs) - 1) :
        DockStep(close(header, index))

\* SetFrameRect by the parent's layout.
DockResize ==
    \E width \in ContentWidths :
        DockStep([header EXCEPT !.width = width, !.laidOut = FALSE])

DockPerformLayout ==
    \E current \in Currents :
        DockStep(PerformLayout(header, current))

NextDock ==
    \/ DockAddTab
    \/ DockClose
    \/ DockResize
    \/ DockPerformLayout

InitDock ==
    /\ f = NewField(FALSE)
    /\ pc = "dock"
    /\ pre = NewField(FALSE)
    /\ op = NoOp
    /\ ret = NoRet
    /\ header = newDockHeader
    /\ path = NoPath
    /\ native = NewNative
    /\ dialog = showWellDialog(Black)
    /\ menu = NewPopupMenu
    /\ cursor = NewCursor
    /\ scan = NoScan

SpecDock == InitDock /\ [][NextDock]_vars

\* ------------------------------------------------------------------------
\* SVG paths: one path of a parsed document is translated
\* ------------------------------------------------------------------------

Direction(type, at) == [type |-> type, at |-> at]

Pattern(type, units, direction) ==
    [type |-> type, units |-> units, direction |-> direction]

\* The fill and stroke patterns of the documents: none, a plain color, the
\* gradients the translation knows (linear, radial, two point conical), a
\* gradient in user space, a gradient whose direction is of another type and
\* a pattern of another type.
SvgPatterns ==
    {Pattern("nil", "", Direction("", <<>>)),
     Pattern("PlainColor", "", Direction("", <<>>)),
     Pattern("Gradient", "objectBoundingBox",
             Direction("Linear", <<0, 0, 100, 100>>)),
     Pattern("Gradient", "objectBoundingBox",
             Direction("Linear", <<50, 0, 100, 50>>)),
     Pattern("Gradient", "objectBoundingBox",
             Direction("Radial", <<50, 50, 50, 50, 100, 0>>)),
     Pattern("Gradient", "objectBoundingBox",
             Direction("Radial", <<50, 50, 0, 0, 100, 0>>)),
     Pattern("Gradient", "userSpaceOnUse",
             Direction("Linear", <<0, 0, 100, 100>>)),
     Pattern("Gradient", "objectBoundingBox", Direction("other", <<>>)),
     Pattern("other", "", Direction("", <<>>))}

SvgBounds ==
    {[X |-> 10, Y |-> 10, Width |-> 100, Height |-> 50],
     [X |-> 0, Y |-> 0, Width |-> 24, Height |-> 24]}

SvgPaths ==
    [bounds : SvgBounds,
     Style : [FillerColor : SvgPatterns, FillOpacity : {0, 1},
              LinerColor : SvgPatterns, LineOpacity : {0, 1},
              LineWidth : {0, 1},
              TrailLineCap : {"ButtCap", "RoundCap", "CubicCap"},
              LineJoin : {"Miter", "Arc"}]]

\* The translation of path.svgPath ends with the result r of `by`.
Translated(by, r) ==
    /\ pc = "svg"
    /\ path.by = ""
    /\ path' = [path EXCEPT !.by = by, !.p = r.p, !.err = r.err]
    /\ UNCHANGED <<f, pc, pre, op, ret, header, native, scan, cursor, menu, dialog>>

DoNewPathFromSvgPath ==
    Translated("newPathFromSvgPath",
               newPathFromSvgPath(path.svgPath, path.ignoreUnsupported))

DoNewPath2 ==
    /\ ~path.ignoreUnsupported
    /\ Translated("newPath2", newPath2(path.svgPath))

NextPath ==
    \/ DoNewPathFromSvgPath
    \/ DoNewPath2

InitPath ==
    /\ f = NewField(FALSE)
    /\ pc = "svg"
    /\ pre = NewField(FALSE)
    /\ op = NoOp
    /\ ret = NoRet
    /\ header = newDockHeader
    /\ native = NewNative
    /\ dialog = showWellDialog(Black)
    /\ menu = NewPopupMenu
    /\ cursor = NewCursor
    /\ scan = NoScan
    /\ \E svgPath \in SvgPaths, ignoreUnsupported \in BOOLEAN :
           path = [NoPath EXCEPT !.svgPath = svgPath,
                                 !.ignoreUnsupported = ignoreUnsupported]

SpecPath == InitPath /\ [][NextPath]_vars

\* ------------------------------------------------------------------------
\* Native handles: wrappers are dropped, finalized, released
\* ------------------------------------------------------------------------

\* One step that turns the wrappers and the queue into n.
NativeStep(n) ==
    /\ pc = "native"
    /\ native' = n
    /\ UNCHANGED <<f, pc, pre, op, ret, header, path, scan, cursor, menu, dialog>>

\* The program gives up its last reference to w.
DropWrapper ==
    \E w \in Wrappers :
        /\ native.objs[w].reachable
        /\ NativeStep([native EXCEPT !.objs[w].reachable = FALSE])

\* The runtime runs the finalizer of a wrapper it found unreachable.  Whether
\* it ever finds a TextBlob unreachable, whose finalizer refers to the blob
\* itself, is left open.
RunFinalizer ==
    \E w \in Wrappers :
        /\ ~native.objs[w].reachable
        /\ native.objs[w].finalizer
        /\ NativeStep(finalizer(native, w, "finalizer"))

\* Some goroutine that holds the blob calls Unref.
DoUnref ==
    /\ native.objs["TextBlob"].reachable
    /\ native.unrefs < MaxUnrefs
    /\ NativeStep(Unref([native EXCEPT !.unrefs = @ + 1]))

\* The UI thread runs the task at the head of the queue.
RunReleaseTask ==
    /\ native.queue # <<>>
    /\ NativeStep(releaseTask([native EXCEPT !.queue = Tail(@)],
                              Head(native.queue), "ui"))

NextNative ==
    \/ DropWrapper
    \/ RunFinalizer
    \/ DoUnref
    \/ RunReleaseTask

InitNative ==
    /\ f = NewField(FALSE)
    /\ pc = "native"
    /\ pre = NewField(FALSE)
    /\ op = NoOp
    /\ ret = NoRet
    /\ header = newDockHeader
    /\ path = NoPath
    /\ native = NewNative
    /\ dialog = showWellDialog(Black)
    /\ menu = NewPopupMenu
    /\ cursor = NewCursor
    /\ scan = NoScan

SpecNative == InitNative /\ [][NextNative]_vars

\* ------------------------------------------------------------------------
\* The scans: one call on a field with a text of its own
\* ------------------------------------------------------------------------

\* "foo bar", "foo ", "a_1 b", "ab\ncd", "\nab", "a\nb\nc", "a\n\nb", "abcd" and
\* shorter texts.
ScanTexts ==
    {<<>>, <<97>>, <<32>>, <<10>>, <<97, 10>>,
     <<102, 111, 111, 32, 98, 97, 114>>,
     <<102, 111, 111, 32>>,
     <<97, 95, 49, 32, 98>>,
     <<97, 98, 10, 99, 100>>,
     <<10, 97, 98>>,
     <<97, 10, 98, 10, 99>>,
     <<97, 10, 10, 98>>,
     <<97, 98, 99, 100>>}

\* Content rectangles for two runes on a line and for eight.
ScanWidths == {6, 18}

ScanOffsets == {[X |-> 0, Y |-> 0], [X |-> -2, Y |-> 0], [X |-> 0, Y |-> -2]}

ScanPositions == 0..Len(scan.field.runes)

\* The call `call(arg)` on the field, returning result and leaving the field after.
Scanned(call, arg, result, after) ==
    /\ scan.call = "none"
    /\ scan' = [scan EXCEPT !.call = call, !.arg = arg, !.result = result,
                            !.after = after]
    /\ UNCHANGED <<f, pc, pre, op, ret, header, path, native, cursor, menu, dialog>>

DoFindWordAt ==
    \E pos \in ScanPositions :
        \E w \in {findWordAt(scan.field, pos)} :
            Scanned("findWordAt", pos, <<w.start, w.end>>, scan.field)

DoFindPrevLineBreak ==
    \E pos \in ScanPositions :
        \E r \in {findPrevLineBreak(scan.field, pos)} :
            Scanned("findPrevLineBreak", pos, <<r.v>>, r.f)

DoFindNextLineBreak ==
    \E pos \in ScanPositions :
        \E r \in {findNextLineBreak(scan.field, pos)} :
            Scanned("findNextLineBreak", pos, <<r.v>>, r.f)

\* ToSelectionIndex(FromSelectionIndex(index)): the result is the point and the
\* index it maps back to.
DoMapThereAndBack ==
    \E index \in ScanPositions :
        \E pt \in {FromSelectionIndex(scan.field, index)} :
            \E to \in {ToSelectionIndex(pt.f, pt.v)} :
                Scanned("ToSelectionIndex", index, <<pt.v.X, pt.v.Y, to.v>>, to.f)

\* A vertical arrow key without modifiers on the field with a caret at index,
\* set with SetSelectionTo and scrolled into view.
DoArrow ==
    \E index \in ScanPositions, key \in {"KeyUp", "KeyDown"} :
        \E g \in {ScrollSelectionIntoView(SetSelectionTo(scan.field, index))} :
            /\ ~g.panicked
            /\ \E r \in {DefaultKeyDown(g, key, NoOp.mod)} :
                   Scanned(key, index, <<>>, r.f)

\* Points on the runes 0, 2, 3, 4 and 7 of the first and the second line.
ScanPoints == [X : {1, 5, 7, 9, 15}, Y : {1, 3}]

\* A double click with the left button; the result is the selection it leaves,
\* the word clicked.
DoDoubleClick ==
    \E where \in ScanPoints :
        \E r \in {DefaultMouseDown(scan.field, where, "ButtonLeft", 2, FALSE)} :
            /\ ~r.f.panicked
            /\ Scanned("MouseDown", 0, <<r.f.selectionStart, r.f.selectionEnd>>, r.f)

\* A drag after the double click, or after an earlier drag of the same press.
DoDrag ==
    /\ scan.call \in {"MouseDown", "MouseDrag"}
    /\ \E where \in ScanPoints :
        \E g \in {DefaultMouseDrag(scan.after, where)} :
            /\ ~g.panicked
            /\ scan' = [scan EXCEPT !.call = "MouseDrag", !.after = g]
    /\ UNCHANGED <<f, pc, pre, op, ret, header, path, native, cursor, menu, dialog>>

\* The word loop of a drag with the anchor at any index and the pointer at any
\* index; the result is the list of positions the loop looked at.
DoWordSnap ==
    \E anchor \in ScanPositions, pos \in ScanPositions :
        \E g \in {SetSelection(scan.field, anchor, anchor)} :
            Scanned("wordSnap", pos, WordSnapLoop(g, pos), g)

NextScan ==
    \/ DoFindWordAt
    \/ DoFindPrevLineBreak
    \/ DoFindNextLineBreak
    \/ DoMapThereAndBack
    \/ DoArrow
    \/ DoDoubleClick
    \/ DoDrag
    \/ DoWordSnap

InitScan ==
    /\ \E multi \in BOOLEAN, width \in ScanWidths, text \in ScanTexts,
          offset \in ScanOffsets :
           \E g \in {ScanField(multi, width, text, offset)} :
               /\ ~g.panicked
               /\ scan = [NoScan EXCEPT !.field = g, !.after = g]
    /\ f = NewField(FALSE)
    /\ pc = "scan"
    /\ pre = NewField(FALSE)
    /\ op = NoOp
    /\ ret = NoRet
    /\ header = newDockHeader
    /\ path = NoPath
    /\ native = NewNative
    /\ dialog = showWellDialog(Black)
    /\ menu = NewPopupMenu
    /\ cursor = NewCursor

SpecScan == InitScan /\ [][NextScan]_vars

\* ------------------------------------------------------------------------
\* The blinking: draws, blink tasks, focus, enabling and the window
\* ------------------------------------------------------------------------

\* The cursor state as an event finds it.
Before == [cursor EXCEPT !.armed = FALSE]

\* One event named `name` turning the cursor state into c.
CursorStep(name, c) ==
    /\ cursor' = [c EXCEPT !.last = name,
                           !.idle = IF c.focused /\ c.enabled THEN 0 ELSE c.idle]
    /\ UNCHANGED <<f, pc, pre, op, ret, header, path, native, scan, menu, dialog>>

\* The field is drawn; only a valid window draws its panels.
Draw ==
    /\ cursor.valid
    /\ CursorStep("Draw", drawCursor(Before))

\* The timer runs the blink task.
RunBlink ==
    /\ cursor.tasks > 0
    /\ \E elapsed \in BOOLEAN :
           CursorStep("blink", blink([Before EXCEPT !.tasks = @ - 1,
                                                    !.idle = Min(@ + 1, MaxIdle)],
                                     elapsed))

\* The field gains the focus; DefaultFocusGained shows the cursor and, with
\* select-all on focus, may leave a range selected.
CursorFocusGained ==
    /\ ~cursor.focused
    /\ \E range \in BOOLEAN :
           CursorStep("FocusGained",
                      [Before EXCEPT !.focused = TRUE, !.showCursor = TRUE,
                                     !.range = range])

CursorFocusLost ==
    /\ cursor.focused
    /\ CursorStep("FocusLost", [Before EXCEPT !.focused = FALSE])

SetEnabled ==
    \E enabled \in BOOLEAN :
        /\ enabled # cursor.enabled
        /\ CursorStep("SetEnabled", [Before EXCEPT !.enabled = enabled])

\* The window is closed or the field is taken out of it, or the field is put
\* into a valid window.
WindowChanged ==
    \E valid \in BOOLEAN :
        /\ valid # cursor.valid
        /\ CursorStep("Window", [Before EXCEPT !.valid = valid])

\* setSelection with a changed selection shows the cursor.
CursorSelect ==
    \E range \in BOOLEAN :
        /\ range # cursor.range
        /\ CursorStep("setSelection", [Before EXCEPT !.range = range,
                                                     !.showCursor = TRUE])

NextBlink ==
    \/ Draw
    \/ RunBlink
    \/ CursorFocusGained
    \/ CursorFocusLost
    \/ SetEnabled
    \/ WindowChanged
    \/ CursorSelect

InitBlink ==
    /\ cursor = NewCursor
    /\ f = NewField(FALSE)
    /\ pc = "blink"
    /\ pre = NewField(FALSE)
    /\ op = NoOp
    /\ ret = NoRet
    /\ header = newDockHeader
    /\ path = NoPath
    /\ native = NewNative
    /\ dialog = showWellDialog(Black)
    /\ menu = NewPopupMenu
    /\ scan = NoScan

SpecBlink == InitBlink /\ [][NextBlink]_vars

\* ------------------------------------------------------------------------
\* The popup menu: items are added, replaced, removed and selected
\* ------------------------------------------------------------------------

MenuItems == {"a", "b"}

\* The items a caller can name: its own and, through ItemAt, a separator's.
NamedItems == MenuItems \cup {Separator}

MenuIndexes == (-1)..MaxItems

\* One call named `call` with the index `arg` turning the menu into p.
MenuStep(call, arg, p) ==
    /\ menu' = [p EXCEPT !.call = call, !.arg = arg,
                         !.was = menu.selectedIndex]
    /\ UNCHANGED <<f, pc, pre, op, ret, header, path, native, scan, cursor, dialog>>

DoAddItem ==
    /\ ItemCount(menu) < MaxItems
    /\ \E item \in MenuItems :
           MenuStep("AddItem", ItemCount(menu), AddItem(menu, item))

DoAddDisabledItem ==
    /\ ItemCount(menu) < MaxItems
    /\ \E item \in MenuItems :
           MenuStep("AddDisabledItem", ItemCount(menu),
                    AddDisabledItem(menu, item))

DoAddSeparator ==
    /\ ItemCount(menu) < MaxItems
    /\ MenuStep("AddSeparator", ItemCount(menu), AddSeparator(menu))

DoRemoveItem ==
    \E item \in NamedItems :
        MenuStep("RemoveItem", IndexOfItem(menu, item), RemoveItem(menu, item))

DoRemoveItemAt ==
    \E index \in MenuIndexes :
        MenuStep("RemoveItemAt", index, RemoveItemAt(menu, index))

DoRemoveAllItems ==
    MenuStep("RemoveAllItems", 0, RemoveAllItems(menu))

DoSetItemAt ==
    \E index \in MenuIndexes, item \in NamedItems, enabled \in BOOLEAN :
        MenuStep("SetItemAt", index, SetItemAt(menu, index, item, enabled))

DoSelect ==
    \E item \in NamedItems :
        MenuStep("Select", IndexOfItem(menu, item), Select(menu, item))

DoSelectIndex ==
    \E index \in MenuIndexes :
        MenuStep("SelectIndex", index, SelectIndex(menu, index))

NextMenu ==
    \/ DoAddItem
    \/ DoAddDisabledItem
    \/ DoAddSeparator
    \/ DoRemoveItem
    \/ DoRemoveItemAt
    \/ DoRemoveAllItems
    \/ DoSetItemAt
    \/ DoSelect
    \/ DoSelectIndex

InitMenu ==
    /\ menu = NewPopupMenu
    /\ f = NewField(FALSE)
    /\ pc = "menu"
    /\ pre = NewField(FALSE)
    /\ op = NoOp
    /\ ret = NoRet
    /\ header = newDockHeader
    /\ path = NoPath
    /\ native = NewNative
    /\ dialog = showWellDialog(Black)
    /\ scan = NoScan
    /\ cursor = NewCursor

SpecMenu == InitMenu /\ [][NextMenu]_vars

\* ------------------------------------------------------------------------
\* The ink dialog: the user moves the focus, edits a field, picks an image
\* ------------------------------------------------------------------------

\* The inks a well can hold.
WellInks == Colors \cup {PatternInk}

\* What the user leaves in a field: a number (or nothing) in a channel or the
\* hue field, a color name in the CSS field, or "x", which is neither.
WellTexts(name) ==
    IF name = "css" THEN {"Black", "Red", "Yellow", "Lime", "x"}
    ELSE IF name = "hue" THEN {"", "0", "60", "120", "x"}
    ELSE {"0", "255", "x"}

\* One event named `name` turning the dialog into d.
DialogStep(name, d) ==
    /\ dialog' = [d EXCEPT !.last = name]
    /\ UNCHANGED <<f, pc, pre, op, ret, header, path, native, scan, cursor, menu>>

\* The focus moves to a field of the dialog, or to one of its buttons.
DialogFocus ==
    \E name \in WellFieldNames \cup {"none"} :
        /\ name # dialog.focus
        /\ DialogStep("focus", [dialog EXCEPT !.focus = name, !.validated = 0])

\* The user edits the focused field: the field takes the text and
\* notifyOfModification validates it.
DialogEdit ==
    /\ dialog.focus \in WellFieldNames
    /\ \E text \in WellTexts(dialog.focus) :
           /\ text # dialog.text[dialog.focus]
           /\ DialogStep("edit",
                         WellValidate([dialog EXCEPT !.text[dialog.focus] = text,
                                                     !.validated = 0],
                                      dialog.focus))

\* The user picks an image with the button of the pattern selector.
DialogSelectImage ==
    /\ dialog.ink # PatternInk
    /\ DialogStep("image", [dialog EXCEPT !.ink = PatternInk, !.validated = 0])

NextDialog ==
    \/ DialogFocus
    \/ DialogEdit
    \/ DialogSelectImage

InitDialog ==
    /\ \E ink \in WellInks : dialog = showWellDialog(ink)
    /\ f = NewField(FALSE)
    /\ pc = "dialog"
    /\ pre = NewField(FALSE)
    /\ op = NoOp
    /\ ret = NoRet
    /\ header = newDockHeader
    /\ path = NoPath
    /\ native = NewNative
    /\ scan = NoScan
    /\ cursor = NewCursor
    /\ menu = NewPopupMenu

SpecDialog == InitDialog /\ [][NextDialog]_vars

\* ------------------------------------------------------------------------
\* Properties
\* ------------------------------------------------------------------------

Done == pc = "done"

SameSelection(a, b) ==
    /\ a.selectionStart = b.selectionStart
    /\ a.selectionEnd = b.selectionEnd
    /\ a.selectionAnchor = b.selectionAnchor

\* The runes of b after its selected range.
AfterRange(b) == Slice(b.runes, b.selectionEnd, Len(b.runes))

\* rs keeps what b has before and after its selected range.
KeepsAround(b, rs) ==
    /\ Len(rs) >= b.selectionStart + Len(AfterRange(b))
    /\ Slice(rs, 0, b.selectionStart) = Slice(b.runes, 0, b.selectionStart)
    /\ Slice(rs, Len(rs) - Len(AfterRange(b)), Len(rs)) = AfterRange(b)

\* What rs holds in the place of the selected range of b.
Inserted(b, rs) == Slice(rs, b.selectionStart, Len(rs) - Len(AfterRange(b)))

CaretAt(g, pos) ==
    g.selectionStart = pos /\ g.selectionEnd = pos /\ g.selectionAnchor = pos

NotLineEnd(r) == r # LineFeed /\ r # CarriageReturn

\* C1: after any sequence of operations the selection satisfies
\* 0 <= selectionStart <= selectionEnd <= len(runes) and
\* selectionStart <= selectionAnchor <= selectionEnd.
SelectionInvariant ==
    /\ 0 <= f.selectionStart
    /\ f.selectionStart <= f.selectionEnd
    /\ f.selectionEnd <= Len(f.runes)
    /\ f.selectionStart <= f.selectionAnchor
    /\ f.selectionAnchor <= f.selectionEnd

\* A selection of the whole of a full buffer with the anchor inside it: the
\* result of applying a state whose start and end lie outside the buffer.
SelectionClamped ==
    /\ pc = "run"
    /\ Len(f.runes) = MaxLen
    /\ f.selectionStart = 0
    /\ f.selectionEnd = MaxLen
    /\ 0 < f.selectionAnchor
    /\ f.selectionAnchor < f.selectionEnd

\* C2: no operation of a field ends in a runtime error, in a single-line or a
\* multi-line field, the empty buffer included.
NoRuntimeError == ~f.panicked

\* The operations C3 lists as mutating the rune buffer.
MutatingOps ==
    {"RuneTyped", "KeyBackspace", "KeyDelete", "Delete", "Cut", "Paste", "SetText"}

\* C3: an editing operation that changes the rune buffer invokes
\* ModifiedCallback exactly once, with the field state before the operation and
\* the field state after it.
ModifiedOnce ==
    (Done /\ op.name \in MutatingOps /\ f.runes # pre.runes)
        => f.modified = <<[before |-> GetFieldState(pre), after |-> GetFieldState(f)]>>

CutNotified ==
    /\ Done
    /\ op.name = "Cut"
    /\ f.runes # pre.runes
    /\ Len(f.modified) = 1

\* C4: ApplyFieldState(GetFieldState()) leaves the rune buffer and the selection
\* unchanged, and a second application changes nothing further.
RoundTripUnchanged ==
    (Done /\ op.name = "RestoreFieldState")
        => /\ f.runes = pre.runes
           /\ SameSelection(f, pre)
           /\ LET again == ApplyFieldState(f, GetFieldState(f))
              IN  again.runes = f.runes /\ SameSelection(again, f)

\* The runes DefaultRuneTyped accepts.
Accepted(ch, b) == ~IsControl(ch) \/ (b.multiLine /\ ch = LineFeed)

\* C5: DefaultRuneTyped(ch) with an accepted rune on buffer b with selection
\* [s, e) yields b[0:s] + ch + b[e:], the caret at s + 1, and returns true.
RuneTypedInserts ==
    (Done /\ op.name = "RuneTyped" /\ Accepted(op.ch, pre))
        => /\ f.runes = Slice(pre.runes, 0, pre.selectionStart) \o <<op.ch>>
                            \o AfterRange(pre)
           /\ CaretAt(f, pre.selectionStart + 1)
           /\ ret.ok

\* Typing a letter at caret 1 of a buffer of two runes.
RuneTypedInTheMiddle ==
    /\ Done
    /\ op.name = "RuneTyped"
    /\ op.ch = LetterA
    /\ pre.runes = <<LetterA, LineFeed>>
    /\ CaretAt(pre, 1)
    /\ f.runes = <<LetterA, LetterA, LineFeed>>
    /\ CaretAt(f, 2)

\* C6: Paste of clipboard text t with selection [s, e) replaces the range by the
\* sanitized text and puts the caret just after it; a single-line field drops
\* every line feed of t (and with it every carriage return), a multi-line field
\* inserts t unchanged.
PasteReplacesRange ==
    (Done /\ op.name = "Paste" /\ pre.clipboard # <<>>)
        => LET t == RunesOf(pre.clipboard)
               ins == Inserted(pre, f.runes)
           IN  /\ KeepsAround(pre, f.runes)
               /\ CaretAt(f, pre.selectionStart + Len(ins))
               /\ pre.multiLine => ins = t
               /\ ~pre.multiLine => /\ \A i \in 1..Len(ins) : ins[i] # LineFeed
                                    /\ ins = SelectSeq(t, NotLineEnd)

\* "a\nb" pasted over a selected range of a single-line field contributes "ab".
PasteStripsLineFeed ==
    /\ Done
    /\ op.name = "Paste"
    /\ ~pre.multiLine
    /\ pre.clipboard = <<LetterA, LineFeed, LetterA>>
    /\ HasSelectionRange(pre)
    /\ Inserted(pre, f.runes) = <<LetterA, LetterA>>

\* The recorded operation pasted something: Paste with text on the clipboard,
\* or RunesIfPasted.
IsPaste == (op.name = "Paste" /\ pre.clipboard # <<>>) \/ op.name = "RunesIfPasted"

\* The buffer the paste produced.
PasteResult == IF op.name = "Paste" THEN f.runes ELSE ret.runes

\* C7: after Paste, and in the result of RunesIfPasted, the inserted runes
\* contain no control character, except line feeds in a multi-line field.
PastedWithoutControls ==
    (Done /\ IsPaste)
        => LET ins == Inserted(pre, PasteResult)
           IN  \A i \in 1..Len(ins) :
                   IsControl(ins[i]) => (pre.multiLine /\ ins[i] = LineFeed)

\* The recorded operation is one of the four actions and its predicate is false.
Refused(name, can) == op.name = name /\ ~can

Untouched ==
    /\ f.runes = pre.runes
    /\ SameSelection(f, pre)
    /\ f.clipboard = pre.clipboard
    /\ f.modified = <<>>

\* C8: whenever CanCut(), CanCopy(), CanPaste() or CanDelete() is false,
\* invoking the action leaves the rune buffer, the selection and the clipboard
\* unchanged and invokes no modification callback.
GatedOnPredicates ==
    (Done /\ (\/ Refused("Cut", CanCut(pre))
              \/ Refused("Copy", CanCopy(pre))
              \/ Refused("Paste", CanPaste(pre))
              \/ Refused("Delete", CanDelete(pre))))
        => Untouched

\* C8 as the code has it: Cut, Copy and Delete do nothing when their predicate
\* is false; Paste with CanPaste() false does nothing when there is no selected
\* range, and otherwise deletes the selected range, leaves the clipboard
\* unchanged and invokes the modification callback once.
GatedButPasteDeletes ==
    Done =>
        /\ (\/ Refused("Cut", CanCut(pre))
            \/ Refused("Copy", CanCopy(pre))
            \/ Refused("Delete", CanDelete(pre))
            \/ (Refused("Paste", CanPaste(pre)) /\ ~HasSelectionRange(pre)))
               => Untouched
        /\ (Refused("Paste", CanPaste(pre)) /\ HasSelectionRange(pre))
               => /\ f.runes = Slice(pre.runes, 0, pre.selectionStart) \o AfterRange(pre)
                  /\ CaretAt(f, pre.selectionStart)
                  /\ f.clipboard = pre.clipboard
                  /\ Len(f.modified) = 1

PasteOfNothingDeletes ==
    /\ Done
    /\ Refused("Paste", CanPaste(pre))
    /\ HasSelectionRange(pre)
    /\ Len(f.runes) < Len(pre.runes)

\* C9: ApplyFieldState never invokes ModifiedCallback, whether or not the
\* applied state changes the rune buffer or the selection.
ApplyFieldStateSilent ==
    (Done /\ op.name \in {"ApplyFieldState", "RestoreFieldState"}) => f.modified = <<>>

ApplyFieldStateChangedAll ==
    /\ Done
    /\ op.name = "ApplyFieldState"
    /\ pre.ModifiedCallback
    /\ f.runes # pre.runes
    /\ ~SameSelection(f, pre)
    /\ f.modified = <<>>

\* C10: after every operation that changes the rune buffer, Invalid() is the
\* negation of ValidateCallback() on the resulting buffer, and false when no
\* callback is set.
ValidationRerun ==
    (Done /\ f.runes # pre.runes)
        => f.invalid = (f.ValidateCallback # "nil" /\ ~ValidateCallbackResult(f))

\* The field without what validation owns: the callback and the invalid flag.
WithoutValidation(g) == [g EXCEPT !.invalid = FALSE, !.ValidateCallback = "nil"]

\* C11: two fields that start in the same state and receive the same events,
\* but whose ValidateCallback returns different results, have the same rune
\* buffer, selection and undo id; they differ in nothing but the invalid flag
\* (and the callback itself).
ValidationNeverBlocks ==
    pc = "twin" =>
        /\ f.runes = pre.runes
        /\ SameSelection(f, pre)
        /\ f.undoID = pre.undoID
        /\ WithoutValidation(f) = WithoutValidation(pre)

\* C11 witness: a focus loss delivered while the two fields disagree on validity.
FocusLostWhileInvalid ==
    /\ pc = "twin"
    /\ op.name = "FocusLost"
    /\ f.invalid /\ ~pre.invalid
    /\ ~f.focused /\ ~pre.focused

\* The recorded operation acted on a field whose ObscurementRune is set.
Obscured == Done /\ pre.ObscurementRune # 0

\* C12: with an ObscurementRune set, Copy and Cut put the text of the real
\* selected runes on the clipboard, never the mask rune, and Paste inserts the
\* (sanitized) runes of the real clipboard text into the buffer.
ObscuredUsesRealText ==
    /\ (Obscured /\ op.name \in {"Copy", "Cut"} /\ HasSelectionRange(pre))
           => /\ f.clipboard
                    = StringOf(Slice(pre.runes, pre.selectionStart, pre.selectionEnd))
              /\ \A i \in 1..Len(f.clipboard) : f.clipboard[i] # pre.ObscurementRune
    /\ (Obscured /\ op.name = "Paste" /\ pre.clipboard # <<>>)
           => /\ KeepsAround(pre, f.runes)
              /\ Inserted(pre, f.runes)
                    = IF pre.multiLine THEN RunesOf(pre.clipboard)
                      ELSE SelectSeq(RunesOf(pre.clipboard), NotLineEnd)

\* C12 witness: Cut of the whole text "a" of a field that draws it as "*".
ObscuredCut ==
    /\ Obscured
    /\ op.name = "Cut"
    /\ pre.runes = <<LetterA>>
    /\ pre.lines = <<(<<Asterisk>>)>>
    /\ f.clipboard = <<LetterA>>
    /\ f.runes = <<>>

\* C13: DefaultFocusLost allocates a new undo id: CurrentUndoID() after it
\* differs from (is later than) the id in use before it.  No operation goes
\* back to an earlier id, so an edit made after the focus loss, which is
\* reported under the id then in use, is never reported under the id of an
\* edit made before it.
FocusLostNewUndoID ==
    Done => /\ f.undoID >= pre.undoID
            /\ op.name = "FocusLost" => f.undoID > pre.undoID

\* C13 witness: a focused field that holds text loses the focus.
FocusLostAfterEdit ==
    /\ Done
    /\ op.name = "FocusLost"
    /\ pre.runes # <<>>
    /\ pre.focused /\ ~f.focused
    /\ f.undoID # pre.undoID

\* The recorded operation is a DefaultMouseDown with the primary button and the
\* given click count.
LeftClick(n) ==
    Done /\ op.name = "MouseDown" /\ op.click.button = "ButtonLeft"
         /\ op.click.clickCount = n

\* The field when the handler looks at the click: it has taken the focus.
AtClick == RequestFocus(BumpUndoID(pre))

\* The index the click is on.
Clicked == ToSelectionIndex(AtClick, op.where).v

\* The selection is the range between the indexes a and b.
RangeBetween(g, a, b) == g.selectionStart = Min(a, b) /\ g.selectionEnd = Max(a, b)

\* The click count decides: a caret at the clicked index, the word at the
\* clicked index (no word in an empty buffer, where findWordAt answers -1) with
\* word-granularity drag extension, or the whole buffer.
ClickCountSelects ==
    /\ (LeftClick(1) /\ ~op.click.shift) => CaretAt(f, Clicked)
    /\ LeftClick(2) =>
           /\ f.selectionStart = Max(findWordAt(f, Clicked).start, 0)
           /\ f.selectionEnd = Max(findWordAt(f, Clicked).end, 0)
           /\ f.extendByWord
    /\ LeftClick(3) => f.selectionStart = 0 /\ f.selectionEnd = Len(f.runes)

\* C14 as stated: a primary-button DefaultMouseDown maps the click count to
\* the selection, and a single click with shift extends the selection from the
\* anchor the field had before the click to the clicked index.
MouseDownSelects ==
    /\ ClickCountSelects
    /\ (LeftClick(1) /\ op.click.shift)
           => RangeBetween(f, pre.selectionAnchor, Clicked)

\* C14 amended: as stated, but a single click with shift extends the selection
\* from the anchor the field has once it has taken the focus, which is the
\* anchor it had before unless taking the focus selected the whole buffer.
MouseDownSelectsOnceFocused ==
    /\ ClickCountSelects
    /\ (LeftClick(1) /\ op.click.shift)
           => RangeBetween(f, AtClick.selectionAnchor, Clicked)

\* C14 witness: a shift click on a field that takes the focus with it, and
\* whose caret was not at the start, selects from the start.
ShiftClickWhenUnfocused ==
    /\ LeftClick(1) /\ op.click.shift
    /\ ~pre.focused /\ ~HasSelectionRange(pre)
    /\ pre.selectionAnchor > 0
    /\ Clicked > pre.selectionAnchor
    /\ f.selectionStart = 0 /\ f.selectionEnd = Clicked

\* The recorded operation is a shift-extension event or a drag event.
Extending ==
    /\ Done
    /\ \/ /\ op.name \in {"KeyLeft", "KeyRight", "KeyUp", "KeyDown", "KeyHome", "KeyEnd"}
          /\ op.mod.shift
       \/ /\ op.name = "MouseDown"
          /\ op.click = [button |-> "ButtonLeft", clickCount |-> 1, shift |-> TRUE]
       \/ op.name = "MouseDrag"

\* C15: a shift-extension event (shift with Left, Right, Up, Down, Home or End,
\* shift with a click) or a drag event leaves selectionAnchor at the value it
\* had, and the anchor is in the range the event leaves.
AnchorFixedWhileExtending ==
    (Extending /\ ~f.panicked)
        => /\ f.selectionAnchor = pre.selectionAnchor
           /\ f.selectionStart <= f.selectionAnchor
           /\ f.selectionAnchor <= f.selectionEnd

\* Where the field draws the active end of its selection.
ActiveEndAt(g) == FromSelectionIndex(g, ActiveEnd(g)).v

\* C16: with AutoScroll enabled and a content rectangle of positive size, after
\* an operation that changed the selection the active end of the selection
\* lies within the content rectangle: horizontally, and in a multi-line field
\* with its whole line vertically.
ActiveEndVisible ==
    (Done /\ ~SameSelection(f, pre) /\ f.AutoScroll /\ ~f.panicked
          /\ f.width > 0 /\ RectH > 0)
        => /\ RectX <= ActiveEndAt(f).X
           /\ ActiveEndAt(f).X < RectRight(f)
           /\ f.multiLine => /\ RectY <= ActiveEndAt(f).Y
                             /\ ActiveEndAt(f).Y + LineH <= RectBottom

\* C17: after SetWrap(w), Wrap() returns w.
SetWrapSets == (Done /\ op.name = "SetWrap") => Wrap(f) = op.flag

\* ------------------------------------------------------------------------
\* The dock tab packer
\* ------------------------------------------------------------------------

\* C18: PerformLayout has no error path: whatever the width, the tabs and the
\* index the owner reports, it ends without a runtime error.
LayoutNeverFails == ~header.panicked

HiddenTabs == {i \in 0..(Len(header.tabs) - 1) : header.tabs[i + 1].Hidden}

\* The header has just been laid out with three tabs that measure 100 each
\* and 220 units left to them after the maximize button and the gaps.
ThreeTabsIn220 ==
    /\ header.laidOut
    /\ Len(header.tabs) = 3
    /\ \A i \in 1..3 : header.tabs[i].size = 100
    /\ Scale * header.width - ButtonWidth(2) - 3 * Scale * TabGap = Scale * 220

\* C19: with three tabs of preferred width 100, a minimum of 50 and 220 units
\* for the tabs, the layout hides exactly one tab, which is not the current
\* one, and shows the overflow button with the text "»1".
OneTabHiddenIn220 ==
    ThreeTabsIn220 =>
        /\ Cardinality(HiddenTabs) = 1
        /\ header.current \notin HiddenTabs
        /\ ~header.overflowHidden
        /\ header.overflowText = 1

\* C19, amended: with three tabs of preferred width 100, a minimum of 50 and
\* 220 units for the tabs, the layout hides no tab and keeps the overflow
\* button hidden; when the current tab is one of the three it keeps its 100
\* and the other two are shrunk to 60 each.
NoTabHiddenIn220 ==
    ThreeTabsIn220 =>
        /\ HiddenTabs = {}
        /\ header.overflowHidden
        /\ header.current \in 0..2 =>
               \A i \in 0..2 :
                   header.tabs[i + 1].width =
                       Scale * (IF i = header.current THEN 100 ELSE 60)

ShrunkTo60 ==
    /\ ThreeTabsIn220
    /\ header.current = 0
    /\ header.tabs[1].width = Scale * 100
    /\ header.tabs[2].width = Scale * 60
    /\ header.tabs[3].width = Scale * 60

\* C20: a layout never hides the current tab, and the hidden tabs are the
\* last tabs of the order once the current tab is left out of it.
HiddenFromTheEnd ==
    header.laidOut =>
        \A i \in HiddenTabs :
            /\ i # header.current
            /\ \A j \in (i + 1)..(Len(header.tabs) - 1) :
                   j # header.current => j \in HiddenTabs

HiddenBehindCurrent ==
    /\ header.laidOut
    /\ Len(header.tabs) = 3
    /\ header.current = 1
    /\ HiddenTabs = {2}

\* The width tab i (counted from 0) measures, floored at the minimum.
Floored(i) == Scale * Max(header.tabs[i + 1].size, MinimumTabWidth)

IsCurrent(i) == i = header.current /\ i \in 0..(Len(header.tabs) - 1)

\* The current tab is narrower than it measures.
CurrentReduced ==
    \E i \in 0..(Len(header.tabs) - 1) :
        IsCurrent(i) /\ header.tabs[i + 1].width < Floored(i)

\* The tabs do not fit the width even with every tab but the current one at
\* the minimum.
TooWideAtMinimum ==
    Sum([i \in 1..Len(header.tabs) |->
            IF IsCurrent(i - 1) THEN Floored(i - 1) ELSE Scale * MinimumTabWidth])
        + Len(header.tabs) * Scale * TabGap + ButtonWidth(2)
      > Scale * header.width

\* The current tab at the width it measures does not fit with the buttons
\* that are shown.
TooWideAlone ==
    Sum([i \in 1..Len(header.tabs) |->
            IF IsCurrent(i - 1) THEN Floored(i - 1) + Scale * TabGap ELSE 0])
        + (IF HiddenTabs = {} THEN 0
           ELSE OverflowWidth(header.overflowText) + Scale * TabGap)
        + ButtonWidth(2)
      > Scale * header.width

\* C21: the layout degrades in order.  Tabs are hidden only when the tabs do
\* not fit with every tab but the current one at MinimumTabWidth, and the
\* current tab is narrowed only when every other tab is hidden (or there is
\* none) and it still does not fit.
DegradesInOrder ==
    header.laidOut =>
        /\ HiddenTabs # {} =>
               /\ TooWideAtMinimum
               /\ \A i \in 0..(Len(header.tabs) - 1) :
                      (~IsCurrent(i) /\ i \notin HiddenTabs) =>
                          header.tabs[i + 1].width = Scale * MinimumTabWidth
        /\ CurrentReduced =>
               /\ TooWideAlone
               /\ \A i \in 0..(Len(header.tabs) - 1) :
                      ~IsCurrent(i) => i \in HiddenTabs

AllDegraded ==
    /\ header.laidOut
    /\ Len(header.tabs) = 3
    /\ Cardinality(HiddenTabs) = 2
    /\ CurrentReduced

\* C22: after a layout the overflow button is shown exactly when a tab is
\* hidden, and when shown its text is "»" and the number of hidden tabs.
OverflowShowsHiddenCount ==
    header.laidOut =>
        /\ ~header.overflowHidden <=> HiddenTabs # {}
        /\ ~header.overflowHidden =>
               header.overflowText = Cardinality(HiddenTabs)

OverflowShowsTwo ==
    /\ header.laidOut
    /\ ~header.overflowHidden
    /\ Cardinality(HiddenTabs) = 2
    /\ header.overflowText = 2

\* ------------------------------------------------------------------------
\* SVG paths
\* ------------------------------------------------------------------------

\* A pattern that is neither a plain color nor a gradient the translation
\* knows: another type of pattern, a gradient whose direction is neither
\* linear nor radial, a gradient in user space.
Unsupported(pattern) ==
    /\ pattern.type \notin {"nil", "PlainColor"}
    /\ ~(/\ pattern.type = "Gradient"
         /\ pattern.units = "objectBoundingBox"
         /\ pattern.direction.type \in {"Linear", "Radial"})

\* The fill is painted, the stroke is painted.
Filled == path.svgPath.Style.FillOpacity # 0

Stroked ==
    path.svgPath.Style.LineOpacity # 0 /\ path.svgPath.Style.LineWidth # 0

LinearFill ==
    /\ path.by = "newPathFromSvgPath"
    /\ path.err = NoError
    /\ Filled
    /\ path.svgPath.Style.FillerColor.type = "Gradient"
    /\ path.svgPath.Style.FillerColor.units = "objectBoundingBox"
    /\ path.svgPath.Style.FillerColor.direction.type = "Linear"

\* The point at the fractions x and y (in hundredths) of the bounds b.
InBounds(b, x, y) ==
    [X |-> b.X + (b.Width * x) \div Hundredths,
     Y |-> b.Y + (b.Height * y) \div Hundredths]

\* C24: the end points of a linear gradient are mapped from fractions into
\* the bounding box of the path; (0,0)-(1,1) over the box at (10,10) of
\* width 100 and height 50 gives the shader the points (10,10) and (110,60).
GradientMappedIntoBounds ==
    LinearFill =>
        LET at == path.svgPath.Style.FillerColor.direction.at
            b == path.svgPath.bounds
            shader == path.p.fillPaint.shader
        IN  /\ shader.kind = "Linear"
            /\ shader.start = InBounds(b, at[1], at[2])
            /\ shader.end = InBounds(b, at[3], at[4])
            /\ (/\ at = <<0, 0, Hundredths, Hundredths>>
                /\ b = [X |-> 10, Y |-> 10, Width |-> 100, Height |-> 50]) =>
                   /\ shader.start = [X |-> 10, Y |-> 10]
                   /\ shader.end = [X |-> 110, Y |-> 60]

DiagonalGradientMapped ==
    /\ LinearFill
    /\ path.svgPath.Style.FillerColor.direction.at = <<0, 0, 100, 100>>
    /\ path.svgPath.bounds = [X |-> 10, Y |-> 10, Width |-> 100, Height |-> 50]
    /\ path.p.fillPaint.shader.end = [X |-> 110, Y |-> 60]

\* ------------------------------------------------------------------------
\* Native handles
\* ------------------------------------------------------------------------

\* C25: no native handle is released by the thread that runs the finalizer
\* or by the caller of Unref: every native release is made by the UI thread.
ReleasedOnUIThreadOnly ==
    \A r \in native.releases : r[2] = "ui"

AllReleasedByUIThread ==
    /\ \A w \in Wrappers : native.objs[w].released = 1
    /\ native.unrefs > 0
    /\ native.queue = <<>>

\* ------------------------------------------------------------------------
\* The cache of lines
\* ------------------------------------------------------------------------

\* The cache of g is in use and holds the layout of the rune buffer of g.
CacheIsLayout(g) ==
    g.linesBuiltFor >= 0 =>
        [lines |-> g.lines, endsWithLineFeed |-> g.endsWithLineFeed]
            = buildLines([g EXCEPT !.linesBuiltFor = -1], g.linesBuiltFor)

\* C26: the cache of lines is never stale: whenever buildLines would return
\* the cached lines, they are the layout of the current rune buffer.
LayoutCacheFresh == CacheIsLayout(f)

RebuiltAfterEdit ==
    /\ Done
    /\ pre.linesBuiltFor >= 0
    /\ pre.runes # f.runes
    /\ f.linesBuiltFor >= 0
    /\ f.lines # pre.lines

\* ------------------------------------------------------------------------
\* The word and line scans
\* ------------------------------------------------------------------------

FooBar == <<102, 111, 111, 32, 98, 97, 114>>

\* The rune at the 0-based index k of the scanned field is a letter, a digit
\* or an underscore.
WordRuneAt(k) ==
    LET r == scan.field.runes[k + 1] IN IsLetter(r) \/ IsDigit(r) \/ r = 95

\* [start, end) is the maximal run of word runes that contains pos.
MaximalRunAround(pos, start, end) ==
    /\ 0 <= start /\ start <= pos /\ pos < end /\ end <= Len(scan.field.runes)
    /\ \A k \in start..(end - 1) : WordRuneAt(k)
    /\ start > 0 => ~WordRuneAt(start - 1)
    /\ end < Len(scan.field.runes) => ~WordRuneAt(end)

\* findWordAt(pos) returned the word the claim describes: the maximal run about
\* a word rune at pos, and the empty word (pos, pos) when no word rune is at pos.
WordFoundAt(pos) ==
    IF pos < Len(scan.field.runes) /\ WordRuneAt(pos)
    THEN MaximalRunAround(pos, scan.result[1], scan.result[2])
    ELSE scan.result = <<pos, pos>>

WordExamples ==
    (scan.call = "findWordAt" /\ scan.field.runes = FooBar)
        => /\ scan.arg = 1 => scan.result = <<0, 3>>
           /\ scan.arg = 3 => scan.result = <<3, 3>>

\* C27 as stated: for every pos in 0..len(runes), findWordAt(pos) returns the
\* maximal run [start, end) of word runes that contains pos, and (pos, pos) when
\* pos is no word rune; in "foo bar", findWordAt(1) = (0,3) and
\* findWordAt(3) = (3,3).
WordAtEveryPos ==
    /\ scan.call = "findWordAt" => WordFoundAt(scan.arg)
    /\ WordExamples

\* C27, amended: the same for every pos in 0..len(runes)-1.
WordAtEveryRune ==
    /\ (scan.call = "findWordAt" /\ scan.arg < Len(scan.field.runes))
            => WordFoundAt(scan.arg)
    /\ WordExamples

WordFooFound ==
    /\ scan.call = "findWordAt"
    /\ scan.field.runes = FooBar
    /\ scan.arg = 1
    /\ scan.result = <<0, 3>>

AbCd == <<97, 98, 10, 99, 100>>

\* The 0-based indexes of the line feeds of the scanned field.
Feeds == {k \in 0..(Len(scan.field.runes) - 1) : scan.field.runes[k + 1] = LineFeed}

\* The scanned field is a multi-line field none of whose lines is wrapped, and
\* pos is the index of one of its runes.
OnUnwrappedLine(pos) ==
    /\ scan.field.multiLine
    /\ pos < Len(scan.field.runes)
    /\ \A i \in DOMAIN scan.after.endsWithLineFeed : scan.after.endsWithLineFeed[i]

\* The least of a non-empty set of integers, and the greatest.
Least(S) == CHOOSE k \in S : \A j \in S : k <= j
Greatest(S) == CHOOSE k \in S : \A j \in S : k >= j

\* The line feed (or the buffer end) that ends the line of pos.
LineEndOf(pos) == Least({k \in Feeds : k >= pos} \cup {Len(scan.field.runes)})

\* The index just after the line feed in front of the line of pos.
LineStartOf(pos) == Greatest({k + 1 : k \in {j \in Feeds : j < pos}} \cup {0})

\* The first line feed after pos, or the buffer end.
FeedAfter(pos) == Least({k \in Feeds : k > pos} \cup {Len(scan.field.runes)})

\* The last line feed before pos - 1, or 0.
FeedBefore(pos) == Greatest({k \in Feeds : k < pos - 1} \cup {0})

\* C28 as stated: in a multi-line field findNextLineBreak(pos) returns the index
\* of the line feed (or buffer end) that ends the line containing pos, and
\* findPrevLineBreak(pos) the index just after the line feed that precedes that
\* line; in "ab\ncd", findNextLineBreak(0) = 2 and findPrevLineBreak(4) = 3.
LineBreaksOfTheLine ==
    /\ (scan.call = "findNextLineBreak" /\ OnUnwrappedLine(scan.arg))
            => scan.result = <<LineEndOf(scan.arg)>>
    /\ (scan.call = "findPrevLineBreak" /\ OnUnwrappedLine(scan.arg))
            => scan.result = <<LineStartOf(scan.arg)>>
    /\ (scan.call = "findNextLineBreak" /\ OnUnwrappedLine(scan.arg)
            /\ scan.field.runes = AbCd /\ scan.arg = 0) => scan.result = <<2>>
    /\ (scan.call = "findPrevLineBreak" /\ OnUnwrappedLine(scan.arg)
            /\ scan.field.runes = AbCd /\ scan.arg = 4) => scan.result = <<3>>

\* C28, amended: where no line is wrapped, findNextLineBreak(pos) returns the
\* index of the first line feed after pos (or the buffer end), and
\* findPrevLineBreak(pos) the index of the last line feed before pos-1 (or 0);
\* in "ab\ncd", findNextLineBreak(0) = 2 and findPrevLineBreak(4) = 2.
LineBreaksAroundPos ==
    /\ (scan.call = "findNextLineBreak" /\ OnUnwrappedLine(scan.arg))
            => scan.result = <<FeedAfter(scan.arg)>>
    /\ (scan.call = "findPrevLineBreak" /\ OnUnwrappedLine(scan.arg))
            => scan.result = <<FeedBefore(scan.arg)>>
    /\ (scan.call = "findNextLineBreak" /\ OnUnwrappedLine(scan.arg)
            /\ scan.field.runes = AbCd /\ scan.arg = 0) => scan.result = <<2>>
    /\ (scan.call = "findPrevLineBreak" /\ OnUnwrappedLine(scan.arg)
            /\ scan.field.runes = AbCd /\ scan.arg = 4) => scan.result = <<2>>

PrevBreakOfCdFound ==
    /\ scan.call = "findPrevLineBreak"
    /\ OnUnwrappedLine(scan.arg)
    /\ scan.field.runes = AbCd
    /\ scan.arg = 4
    /\ scan.result = <<2>>

\* ------------------------------------------------------------------------
\* The coordinate mapping
\* ------------------------------------------------------------------------

\* C29: ToSelectionIndex(FromSelectionIndex(i)) = i for every index i of a
\* single-line, multi-line or wrapped field, whatever its scroll offset.
MapsThereAndBack ==
    scan.call = "ToSelectionIndex" => scan.result[3] = scan.arg

\* ------------------------------------------------------------------------
\* Vertical arrows
\* ------------------------------------------------------------------------

\* The display line (1-based) of the layout of g on which the caret at the
\* index i stands: the line that holds the rune at i, and the last line for the
\* index behind the last rune.
CaretLine(g, i) ==
    LET hit == {k \in 1..Len(g.lines) : i < LineStart(g, k) + LineLength(g, k)}
    IN  IF hit = {} THEN Len(g.lines) ELSE Least(hit)

\* The column of that caret on its line.
CaretColumn(g, i) == i - LineStart(g, CaretLine(g, i))

\* The caret at scan.arg was moved by the key to a caret on the display line
\* `to`, in the same column when that line has the column.
MovedToLine(to) ==
    LET g == scan.after
        caret == g.selectionStart
    IN  /\ g.selectionEnd = caret
        /\ CaretLine(g, caret) = to
        /\ CaretColumn(g, scan.arg) < LineLength(g, to)
                => CaretColumn(g, caret) = CaretColumn(g, scan.arg)

\* C30: in a multi-line field an arrow down without modifiers moves a caret to
\* the display line below it and an arrow up to the display line above it, in
\* the same column, from every caret position; on the last line Down, and on
\* the first line Up, keeps the caret on that line.
VerticalArrowsByLine ==
    (scan.call \in {"KeyUp", "KeyDown"} /\ scan.field.multiLine
        /\ ~scan.after.panicked /\ Len(scan.after.lines) > 0)
        => LET from == CaretLine(scan.after, scan.arg)
               last == Len(scan.after.lines)
           IN  IF scan.call = "KeyDown"
               THEN IF from = last THEN CaretLine(scan.after, scan.after.selectionStart) = last
                    ELSE MovedToLine(from + 1)
               ELSE IF from = 1 THEN CaretLine(scan.after, scan.after.selectionStart) = 1
                    ELSE MovedToLine(from - 1)

\* ------------------------------------------------------------------------
\* Dragging by words
\* ------------------------------------------------------------------------

\* C31: during every drag that follows a double click the selection contains
\* the word [s1, e1) that was double-clicked: selectionStart <= s1 and
\* selectionEnd >= e1.
DragKeepsClickedWord ==
    scan.call = "MouseDrag"
        => /\ scan.after.selectionStart <= scan.result[1]
           /\ scan.after.selectionEnd >= scan.result[2]

DraggedOverSecondWord ==
    /\ scan.call = "MouseDrag"
    /\ scan.field.runes = FooBar
    /\ scan.result = <<4, 7>>
    /\ scan.after.selectionStart = 0
    /\ scan.after.selectionEnd = 7

\* ------------------------------------------------------------------------
\* The blinking of the cursor
\* ------------------------------------------------------------------------

\* A blink task is outstanding only with the pending flag set, and never more
\* than one.
OneTaskAtMost == cursor.tasks <= 1 /\ (cursor.tasks = 1 => cursor.pending)

\* An event handed a blink task to the timer only in a focused and enabled
\* field of a valid window.
ArmedOnlyWhenActive ==
    cursor.armed => cursor.focused /\ cursor.enabled /\ cursor.valid

\* While the field is not both focused and enabled, at most one blink callback
\* has run.
OneIdleCallbackAtMost == cursor.idle <= 1

\* A focused and enabled field that was drawn with its caret has a blink task
\* outstanding.
BlinkingAfterDraw ==
    (cursor.last = "Draw" /\ cursor.focused /\ cursor.enabled /\ ~cursor.range)
        => cursor.tasks = 1

\* C32: a blink task is scheduled or re-armed only while the field is focused
\* and enabled in a valid window, after a focus loss or disabling at most one
\* more blink callback runs, and once the field is focused, enabled and drawn
\* again the blinking goes on.
BlinkGatedAndResumes ==
    /\ ArmedOnlyWhenActive
    /\ OneIdleCallbackAtMost
    /\ BlinkingAfterDraw

\* C38: at most one blink task is outstanding at any time, and the pending flag
\* is set exactly while one is.
PendingIffTaskOutstanding ==
    /\ cursor.tasks <= 1
    /\ cursor.pending <=> cursor.tasks = 1

\* ------------------------------------------------------------------------
\* The width of the tabs
\* ------------------------------------------------------------------------

\* C33: after a layout every tab that is shown is at least MinimumTabWidth
\* wide, whichever steps of the degradation ran, the forced reduction of the
\* current tab included.
VisibleTabsAtLeastMinimum ==
    header.laidOut =>
        \A i \in 1..Len(header.tabs) :
            ~header.tabs[i].Hidden =>
                header.tabs[i].width >= Scale * MinimumTabWidth

\* A layout that hid tabs and then reduced the current tab, which measures
\* more than the minimum, down to the minimum.
CurrentForcedToMinimum ==
    /\ header.laidOut
    /\ header.forced
    /\ HiddenTabs # {}
    /\ \E i \in 0..(Len(header.tabs) - 1) :
           /\ IsCurrent(i)
           /\ header.tabs[i + 1].size > MinimumTabWidth
           /\ header.tabs[i + 1].width = Scale * MinimumTabWidth

\* ------------------------------------------------------------------------
\* The popup menu
\* ------------------------------------------------------------------------

\* C34: whatever items were added, replaced, removed and selected, a menu
\* that has items has its selectedIndex on one of them: at least 0 and
\* below ItemCount().
SelectedIndexInRange ==
    ItemCount(menu) > 0 =>
        menu.selectedIndex >= 0 /\ menu.selectedIndex < ItemCount(menu)

\* The selected item was the last of three and has just been removed; the
\* selection is on the item that is last now.
SelectedLastRemoved ==
    /\ menu.call = "RemoveItemAt"
    /\ menu.arg = menu.was
    /\ menu.was = 2
    /\ ItemCount(menu) = 2
    /\ menu.selectedIndex = 1

\* ------------------------------------------------------------------------
\* Line ends in a single-line field
\* ------------------------------------------------------------------------

LineEnds == {LineFeed, CarriageReturn}

HasLineEnd(rs) == \E i \in 1..Len(rs) : rs[i] \in LineEnds

\* C35: the rune buffer of a single-line field holds no line feed and no
\* carriage return, whichever rune was typed, key pressed, text pasted or
\* set, or field state applied.
NoLineEndInSingleLine == ~f.multiLine => ~HasLineEnd(f.runes)

\* A clipboard text with a line feed has been pasted into a single-line
\* field, which took the other runes.
PastedLineFeedDropped ==
    /\ Done
    /\ op.name = "Paste"
    /\ ~f.multiLine
    /\ HasLineEnd(pre.clipboard)
    /\ Len(f.runes) > Len(pre.runes)

\* ------------------------------------------------------------------------
\* The undo group of typed runes
\* ------------------------------------------------------------------------

\* C37: DefaultRuneTyped leaves CurrentUndoID() as it finds it, so runes
\* typed one after the other with no other event between them are edits of
\* one undo group.
TypedRunesShareUndoID ==
    (Done /\ op.name = "RuneTyped") => CurrentUndoID(f) = CurrentUndoID(pre)

\* A rune has been typed into a field that held text, and the buffer has
\* grown by it.
TypedOneMore ==
    /\ Done
    /\ op.name = "RuneTyped"
    /\ ret.ok
    /\ pre.runes # <<>>
    /\ Len(f.runes) = Len(pre.runes) + 1
    /\ CurrentUndoID(f) = CurrentUndoID(pre)

\* ------------------------------------------------------------------------
\* The word loop of a drag
\* ------------------------------------------------------------------------

\* The word of the anchor of the field the loop ran on.
AnchorWord == findWordAt(scan.after, scan.after.selectionAnchor)

\* Each position of `visits` is one step from the one before it, all steps
\* go the same way, and none goes past the word [s1, e1) of the anchor.
TowardsWord(visits, s1, e1) ==
    \/ \A i \in 1..(Len(visits) - 1) :
           visits[i + 1] = visits[i] + 1 /\ visits[i + 1] <= s1
    \/ \A i \in 1..(Len(visits) - 1) :
           visits[i + 1] = visits[i] - 1 /\ visits[i + 1] >= e1

\* C39: the word loop of DefaultMouseDrag ends for every buffer, the empty
\* one included, every anchor and every pointer index: it looks at no more
\* than len(runes)+1 positions, each one step nearer to the word of the
\* anchor than the one before.
WordLoopEnds ==
    scan.call = "wordSnap"
        => /\ Len(scan.result) <= Len(scan.after.runes) + 1
           /\ TowardsWord(scan.result, AnchorWord.start, AnchorWord.end)

\* With the anchor on the "b" of "a", two line feeds, "b" and the pointer on
\* the first line feed, the loop has looked at both line feeds and stopped in
\* front of the word.
WordLoopWalked ==
    /\ scan.call = "wordSnap"
    /\ scan.after.runes = <<97, 10, 10, 98>>
    /\ scan.after.selectionAnchor = 3
    /\ scan.arg = 1
    /\ scan.result = <<1, 2>>

\* ------------------------------------------------------------------------
\* The handle of a text blob
\* ------------------------------------------------------------------------

\* The release tasks of the TextBlob that wait for the UI thread.
BlobTasksQueued ==
    Cardinality({i \in 1..Len(native.queue) : native.queue[i] = "TextBlob"})

\* C40: however many times Unref is called and however the calls fall
\* between the release tasks the UI thread runs, the native unref of a
\* TextBlob is never made twice, the handle is nil from the moment it was
\* made, and once the tasks of the Unref calls have run it has been made
\* exactly once.
BlobReleasedOnce ==
    LET blob == native.objs["TextBlob"]
    IN  /\ blob.released <= 1
        /\ blob.handle <=> blob.released = 0
        /\ (native.unrefs > 0 /\ BlobTasksQueued = 0)
               => blob.released = 1 /\ ~blob.handle

\* Unref has been called twice on a blob the program still holds, and the
\* tasks of both calls have run.
UnrefTwiceReleasedOnce ==
    /\ native.unrefs = 2
    /\ BlobTasksQueued = 0
    /\ native.objs["TextBlob"].reachable
    /\ native.objs["TextBlob"].released = 1
    /\ ~native.objs["TextBlob"].handle

\* ------------------------------------------------------------------------
\* The ink dialog
\* ------------------------------------------------------------------------

\* C36: sync is guarded against re-entrancy.  The validation callbacks that
\* the SetText calls of a running sync set off neither change d.ink nor call
\* sync, and syncing is false again once sync has returned.
SyncNotReentered ==
    /\ dialog.nested = 0
    /\ dialog.changed = 0
    /\ ~dialog.syncing

\* An edit of the red field has changed the ink, and the sync it called has
\* set the texts of other fields, whose callbacks ran while syncing.
SyncedAfterEdit ==
    /\ dialog.last = "edit"
    /\ dialog.focus = "red"
    /\ dialog.validated >= 2
    /\ IsColor(dialog.ink)
    /\ ~dialog.syncing
    /\ \A name \in WellFieldNames \ {"red"} :
           dialog.text[name] = WellText(name, dialog.ink)

====
